---- MODULE Spec2Model ----
(***************************************************************************)
(* Receipt processing pipeline of lesentiel: the persistence layer         *)
(* (src/db), the validator and the vision extraction (utils/llmProcessor), *)
(* the orchestrator (utils/receiptProcessor) and the receipt store         *)
(* (utils/receipts).                                                       *)
(*                                                                         *)
(* Conventions.  A nullable value (a JS value that may be null/undefined,  *)
(* an SQL column that may be NULL) is a sequence: NULL == <<>> or <<v>>.   *)
(* Money is counted in integer cents, so the validator's arithmetic is     *)
(* exact.  A function that may throw returns [db, threw, error, value].    *)
(* The columns raw_text (always "" -> NULL in the pipeline) and            *)
(* processed_at (wall clock) are left out of the rows.                     *)
(***************************************************************************)
EXTENDS Integers, Sequences, FiniteSets, TLC

\* ------------------------------------------------------------------ bounds
MaxBatch == 2       \* longest filename list given to processMultipleReceipts
MaxApiCalls == 2    \* direct insertReceipt calls made besides the pipeline
MaxDbCalls == 3     \* direct calls of the db functions in a run of the db API
MaxRequests == 3    \* LLM requests made in a session of the interactive app

\* Two pipeline invocations share the database: a processMultipleReceipts
\* batch, and a single processReceipt call as the interactive app makes it
\* (a batch of one).
Procs == {"batch", "single"}
MaxLen(p) == IF p = "batch" THEN MaxBatch ELSE 1
Filenames == {"a.pdf", "b.pdf"}

\* ------------------------------------------------------- nullable values
NULL == <<>>
Some(v) == <<v>>
Val(x) == x[1]

\* JS `x || d` for a number: null, undefined and 0 are falsy
OrNum(x, d) == IF x = NULL THEN d ELSE IF Val(x) = 0 THEN d ELSE x
\* JS `x || d` for a string: null, undefined and "" are falsy
OrStr(x, d) == IF x = NULL THEN d ELSE IF Val(x) = "" THEN d ELSE x

Max(a, b) == IF a >= b THEN a ELSE b
Abs(a) == IF a >= 0 THEN a ELSE 0 - a

\* outcomes of a function that may throw
Return(d, v) == [db |-> d, threw |-> FALSE, error |-> "", value |-> v]
Throw(d, msg) == [db |-> d, threw |-> TRUE, error |-> msg, value |-> NULL]

\* ---------------------------------------------------------- db/index.ts
\* getDatabase on a fresh file: a database without tables
getDatabase ==
  [tables |-> FALSE, receipts |-> {}, receipt_items |-> {},
   seq_receipts |-> 0, seq_items |-> 0]

\* initDatabase: both tables empty, AUTOINCREMENT sequences at 0
initDatabase == [getDatabase EXCEPT !.tables = TRUE]

\* db.query(sql) followed by get/all/run with outcome r: preparing a statement
\* on a table that was never created throws
query(d, r) == IF d.tables THEN r ELSE Throw(d, "no such table: receipts")

\* db.transaction(fn)(): r is the outcome of fn run on database d.  A throw
\* rolls every write of fn back (the AUTOINCREMENT sequence included) and is
\* rethrown; otherwise the writes are committed.
transaction_NoRollback(d, r) == r

transaction(d, r) == IF r.threw THEN [r EXCEPT !.db = d] ELSE r

\* -------------------------------------------------------- db/receipts.ts
getReceiptByFilename_Never(d, filename) == NULL

getReceiptByFilename(d, filename) ==
  IF \E r \in d.receipts : r.filename = filename
  THEN Some(CHOOSE r \in d.receipts : r.filename = filename)
  ELSE NULL

ReceiptRow(d, receipt) ==
  [id                |-> d.seq_receipts + 1,
   filename          |-> receipt.filename,
   merchant_name     |-> OrStr(receipt.merchant_name, NULL),
   receipt_date      |-> OrStr(receipt.receipt_date, NULL),
   total_amount      |-> OrNum(receipt.total_amount, NULL),
   currency          |-> OrStr(receipt.currency, Some("USD")),
   processing_status |-> OrStr(receipt.processing_status, Some("pending"))]

insertReceipt_NoUnique(d, receipt) ==
  LET row == ReceiptRow(d, receipt)
  IN  Return([d EXCEPT !.receipts = @ \cup {row}, !.seq_receipts = row.id], row)

insertReceipt(d, receipt) ==
  LET row == ReceiptRow(d, receipt)
  IN  IF \E r \in d.receipts : r.filename = row.filename
      THEN Throw(d, "UNIQUE constraint failed: receipts.filename")
      ELSE Return([d EXCEPT !.receipts = @ \cup {row},
                            !.seq_receipts = row.id], row)

\* DELETE FROM receipts WHERE id = $id; foreign_keys is ON, so the items of the
\* receipt go with it (ON DELETE CASCADE)
deleteReceipt_NoCascade(d, id) ==
  Return([d EXCEPT !.receipts = {r \in @ : r.id # id}],
         [changes |-> Cardinality({r \in d.receipts : r.id = id})])

deleteReceipt(d, id) ==
  Return([d EXCEPT !.receipts = {r \in @ : r.id # id},
                   !.receipt_items = {it \in @ : it.receipt_id # id}],
         [changes |-> Cardinality({r \in d.receipts : r.id = id})])

\* UPDATE receipts SET processing_status = $status on every row
updateReceiptStatus_AllRows(d, id, newStatus) ==
  Return([d EXCEPT !.receipts =
            {[r EXCEPT !.processing_status = Some(newStatus)] : r \in @}],
         [changes |-> Cardinality(d.receipts)])

\* UPDATE receipts SET processing_status = $status WHERE id = $id
updateReceiptStatus(d, id, newStatus) ==
  Return([d EXCEPT !.receipts =
            {IF r.id = id THEN [r EXCEPT !.processing_status = Some(newStatus)]
                          ELSE r : r \in @}],
         [changes |-> Cardinality({r \in d.receipts : r.id = id})])

\* SELECT * FROM receipts ORDER BY processed_at DESC, as the set of its rows
getAllReceipts(d) == query(d, Return(d, d.receipts))

\* ----------------------------------------------------------- db/items.ts
\* the row bound to the first receipt instead of receiptId
ItemRow_FirstReceipt(d, receiptId, item) ==
  [id          |-> d.seq_items + 1,
   receipt_id  |-> 1,
   item_name   |-> item.item_name,
   quantity    |-> OrNum(item.quantity, Some(1)),
   unit_price  |-> OrNum(item.unit_price, NULL),
   total_price |-> item.total_price,
   category    |-> OrStr(item.category, NULL)]

ItemRow(d, receiptId, item) ==
  [id          |-> d.seq_items + 1,
   receipt_id  |-> receiptId,
   item_name   |-> item.item_name,
   quantity    |-> OrNum(item.quantity, Some(1)),
   unit_price  |-> OrNum(item.unit_price, NULL),
   total_price |-> item.total_price,
   category    |-> OrStr(item.category, NULL)]

\* the for loop of insertReceiptItems: one INSERT per item, in input order;
\* a constraint violation throws out of the loop with the earlier rows written
RECURSIVE insertItemsLoop(_, _, _, _)
insertItemsLoop(d, receiptId, items, results) ==
  IF items = <<>> THEN Return(d, results)
  ELSE LET row == ItemRow(d, receiptId, Head(items))
       IN  IF row.item_name = NULL
           THEN Throw(d, "NOT NULL constraint failed: receipt_items.item_name")
           ELSE IF row.total_price = NULL
           THEN Throw(d, "NOT NULL constraint failed: receipt_items.total_price")
           ELSE IF ~ \E r \in d.receipts : r.id = receiptId
           THEN Throw(d, "FOREIGN KEY constraint failed")
           ELSE insertItemsLoop(
                  [d EXCEPT !.receipt_items = @ \cup {row}, !.seq_items = row.id],
                  receiptId, Tail(items), Append(results, row))

\* the same loop without the foreign key of receipt_items
RECURSIVE insertItemsLoop_NoForeignKey(_, _, _, _)
insertItemsLoop_NoForeignKey(d, receiptId, items, results) ==
  IF items = <<>> THEN Return(d, results)
  ELSE LET row == ItemRow(d, receiptId, Head(items))
       IN  IF row.item_name = NULL
           THEN Throw(d, "NOT NULL constraint failed: receipt_items.item_name")
           ELSE IF row.total_price = NULL
           THEN Throw(d, "NOT NULL constraint failed: receipt_items.total_price")
           ELSE insertItemsLoop_NoForeignKey(
                  [d EXCEPT !.receipt_items = @ \cup {row}, !.seq_items = row.id],
                  receiptId, Tail(items), Append(results, row))

insertReceiptItems_NoForeignKey(d, receiptId, items) ==
  transaction(d, insertItemsLoop_NoForeignKey(d, receiptId, items, <<>>))

\* the loop run outside db.transaction
insertReceiptItems_NoTransaction(d, receiptId, items) ==
  insertItemsLoop(d, receiptId, items, <<>>)

insertReceiptItems(d, receiptId, items) ==
  transaction(d, insertItemsLoop(d, receiptId, items, <<>>))

\* DELETE FROM receipt_items WHERE receipt_id = $receipt_id
deleteReceiptItems(d, receiptId) ==
  Return([d EXCEPT !.receipt_items = {it \in @ : it.receipt_id # receiptId}],
         [changes |-> Cardinality({it \in d.receipt_items : it.receipt_id = receiptId})])

\* ------------------------------------------------- utils/llmProcessor.ts
Item(name, qty, total) ==
  [item_name |-> name, quantity |-> qty, unit_price |-> NULL,
   total_price |-> total, category |-> NULL]

Data(merchant, date, total, items) ==
  [merchant_name |-> merchant, receipt_date |-> date, total_amount |-> total,
   currency |-> Some("USD"), items |-> items, confidence |-> Some(95)]

\* parsed JSON objects the model may answer with
DataComplete ==     \* items sum to the total
  Data(Some("Cafe X"), Some("2024-01-12"), Some(1000),
       <<Item(Some("Coffee"), Some(2), Some(1000))>>)
DataMismatch ==     \* item total 2.00 against a stated total of 10.00
  Data(Some("Cafe X"), Some("2024-01-12"), Some(1000),
       <<Item(Some("Coffee"), NULL, Some(200))>>)
DataNoItems ==      \* no line items, loosely formatted date
  Data(Some("Kiosk"), Some("12/01/2024"), Some(40), <<>>)
DataBadItem ==      \* second line item without a name
  Data(Some("Cafe X"), Some("2024-01-12"), Some(1000),
       <<Item(Some("Coffee"), Some(1), Some(500)),
         Item(NULL, Some(1), Some(500))>>)
DataIncomplete ==   \* merchant missing
  Data(NULL, Some("2024-01-12"), Some(1000), <<>>)
DataZeroTotal ==    \* a receipt paid in full by a voucher: total 0.00
  Data(Some("Cafe X"), Some("2024-01-12"), Some(0),
       <<Item(Some("Voucher"), Some(1), Some(0))>>)

\* what `await openai.chat.completions.create(...)` may yield
NoResponse == [kind |-> "none", data |-> DataIncomplete]
LLMResponses ==
  { [kind |-> "error", data |-> DataIncomplete],        \* transport error
    [kind |-> "empty", data |-> DataIncomplete],        \* no message content
    [kind |-> "malformed", data |-> DataIncomplete],    \* content is not JSON
    [kind |-> "json", data |-> DataIncomplete],
    [kind |-> "json", data |-> DataComplete],
    [kind |-> "json", data |-> DataMismatch],
    [kind |-> "json", data |-> DataNoItems],
    [kind |-> "json", data |-> DataBadItem],
    [kind |-> "json", data |-> DataZeroTotal] }

VisionPrefix == "Failed to extract receipt data with vision: "
TextPrefix == "Failed to extract receipt data: "

\* the text variant with `!data.total_amount` for the total
extractReceiptData_ZeroIsMissing(resp) ==
  IF resp.kind = "error"
  THEN Throw(NULL, TextPrefix \o "Connection error.")
  ELSE IF resp.kind = "empty"
  THEN Throw(NULL, TextPrefix \o "No response from OpenAI")
  ELSE IF resp.kind = "malformed"
  THEN Throw(NULL, TextPrefix \o "JSON Parse error: Unexpected identifier")
  ELSE IF \/ OrStr(resp.data.merchant_name, NULL) = NULL
          \/ OrStr(resp.data.receipt_date, NULL) = NULL
          \/ OrNum(resp.data.total_amount, NULL) = NULL
  THEN Throw(NULL, TextPrefix \o "Incomplete receipt data extracted")
  ELSE Return(NULL, resp.data)

\* extractReceiptData after its single request was answered by resp
extractReceiptData(resp) ==
  IF resp.kind = "error"
  THEN Throw(NULL, TextPrefix \o "Connection error.")
  ELSE IF resp.kind = "empty"
  THEN Throw(NULL, TextPrefix \o "No response from OpenAI")
  ELSE IF resp.kind = "malformed"
  THEN Throw(NULL, TextPrefix \o "JSON Parse error: Unexpected identifier")
  ELSE IF \/ OrStr(resp.data.merchant_name, NULL) = NULL
          \/ OrStr(resp.data.receipt_date, NULL) = NULL
          \/ resp.data.total_amount = NULL
  THEN Throw(NULL, TextPrefix \o "Incomplete receipt data extracted")
  ELSE Return(NULL, resp.data)

\* extractReceiptDataWithVision after its single request was answered by resp
extractReceiptDataWithVision(resp) ==
  IF resp.kind = "error"
  THEN Throw(NULL, VisionPrefix \o "Connection error.")
  ELSE IF resp.kind = "empty"
  THEN Throw(NULL, VisionPrefix \o "No response from OpenAI Vision")
  ELSE IF resp.kind = "malformed"
  THEN Throw(NULL, VisionPrefix \o "JSON Parse error: Unexpected identifier")
  ELSE IF \/ OrStr(resp.data.merchant_name, NULL) = NULL
          \/ OrStr(resp.data.receipt_date, NULL) = NULL
          \/ resp.data.total_amount = NULL
  THEN Throw(NULL, VisionPrefix \o "Incomplete receipt data extracted from vision")
  ELSE Return(NULL, resp.data)

RECURSIVE SumTotalPrice(_)
\* data.items.reduce((sum, item) => sum + item.total_price, 0); null adds 0
SumTotalPrice(items) ==
  IF items = <<>> THEN 0
  ELSE (IF Head(items).total_price = NULL THEN 0 ELSE Val(Head(items).total_price))
       + SumTotalPrice(Tail(items))

IsDigit(c) == c \in {"0", "1", "2", "3", "4", "5", "6", "7", "8", "9"}

\* the same shape, for a month of 01..12 and a day of 01..31 only
DatePatternTest_Calendar(s) ==
  /\ Len(s) = 10
  /\ \A i \in {1, 2, 3, 4, 6, 7, 9, 10} : IsDigit(SubSeq(s, i, i))
  /\ SubSeq(s, 5, 5) = "-"
  /\ SubSeq(s, 8, 8) = "-"
  /\ SubSeq(s, 6, 6) \in {"0", "1"}
  /\ SubSeq(s, 6, 6) = "1" => SubSeq(s, 7, 7) \in {"0", "1", "2"}
  /\ SubSeq(s, 6, 7) # "00"
  /\ SubSeq(s, 9, 9) \in {"0", "1", "2", "3"}
  /\ SubSeq(s, 9, 9) = "3" => SubSeq(s, 10, 10) \in {"0", "1"}
  /\ SubSeq(s, 9, 10) # "00"

\* /^\d{4}-\d{2}-\d{2}$/.test(s)
DatePatternTest(s) ==
  /\ Len(s) = 10
  /\ \A i \in {1, 2, 3, 4, 6, 7, 9, 10} : IsDigit(SubSeq(s, i, i))
  /\ SubSeq(s, 5, 5) = "-"
  /\ SubSeq(s, 8, 8) = "-"

SumIssue(itemsSum, total) ==
  <<"Items sum doesn't match total", <<itemsSum, total>> >>
ItemsIssue == <<"No items found in receipt", <<>> >>
DateIssue == <<"Invalid date format (expected YYYY-MM-DD)", <<>> >>

\* JavaScript numbers are IEEE 754 binary64.  A number is modelled by its exact
\* value m * 2^e, where the natural number m is a little-endian sequence of
\* limbs below Limb; amounts are never negative.
LimbBits == 13
Limb == 2^LimbBits
MantissaBits == 53

LimbAt(s, i) == IF i >= 1 /\ i <= Len(s) THEN s[i] ELSE 0

RECURSIVE BTrim(_)
BTrim(s) ==
  IF s # <<>> /\ s[Len(s)] = 0 THEN BTrim(SubSeq(s, 1, Len(s) - 1)) ELSE s

RECURSIVE BCarry(_, _)
BCarry(s, carry) ==
  IF s = <<>>
  THEN IF carry = 0 THEN <<>>
       ELSE <<carry % Limb>> \o BCarry(<<>>, carry \div Limb)
  ELSE <<(Head(s) + carry) % Limb>> \o BCarry(Tail(s), (Head(s) + carry) \div Limb)

BNat(n) == BTrim(BCarry(<<n>>, 0))
BAdd(a, b) ==
  BTrim(BCarry([i \in 1..Max(Len(a), Len(b)) |-> LimbAt(a, i) + LimbAt(b, i)], 0))
\* a - b for a >= b
BSub(a, b) ==
  BTrim(BCarry([i \in 1..Max(Len(a), Len(b)) |-> LimbAt(a, i) - LimbAt(b, i)], 0))
BMul(a, b) ==
  LET Conv(k) ==
        LET S[i \in 0..Len(a)] ==
              IF i = 0 THEN 0 ELSE S[i - 1] + a[i] * LimbAt(b, k + 1 - i)
        IN  S[Len(a)]
  IN  BTrim(BCarry([k \in 1..(Len(a) + Len(b)) |-> Conv(k)], 0))

RECURSIVE BCmpAt(_, _, _)
BCmpAt(a, b, i) ==
  IF i = 0 THEN 0
  ELSE IF a[i] > b[i] THEN 1
  ELSE IF a[i] < b[i] THEN -1
  ELSE BCmpAt(a, b, i - 1)
\* -1, 0 or 1 as a < b, a = b or a > b
BCmp(a, b) ==
  IF Len(a) > Len(b) THEN 1
  ELSE IF Len(a) < Len(b) THEN -1
  ELSE BCmpAt(a, b, Len(a))

\* a * 2^k
BShl(a, k) ==
  IF a = <<>> THEN a
  ELSE [i \in 1..(k \div LimbBits) |-> 0]
       \o BCarry([i \in 1..Len(a) |-> a[i] * 2^(k % LimbBits)], 0)
\* quotient and remainder of s by a divisor below Limb
BDivSmall(s, d) ==
  LET n == Len(s)
      R[i \in 1..(n + 1)] ==
        IF i = n + 1 THEN 0 ELSE (R[i + 1] * Limb + s[i]) % d
  IN  [quot |-> BTrim([i \in 1..n |-> (R[i + 1] * Limb + s[i]) \div d]),
       rem  |-> R[1]]
\* the quotient of a by 2^k, and whether the division leaves a remainder
BDivPow2(a, k) ==
  LET d == BDivSmall(SubSeq(a, k \div LimbBits + 1, Len(a)), 2^(k % LimbBits))
  IN  [quot   |-> d.quot,
       sticky |-> d.rem # 0 \/ \E i \in 1..(k \div LimbBits) : LimbAt(a, i) # 0]
BitLength(a) ==
  IF a = <<>> THEN 0
  ELSE LimbBits * (Len(a) - 1)
       + (CHOOSE n \in 1..LimbBits : 2^(n - 1) <= a[Len(a)] /\ a[Len(a)] < 2^n)
BOdd(a) == a # <<>> /\ a[1] % 2 = 1

\* a / 2^k (k >= 1) rounded to the nearest natural number, ties to even
BRound(a, k) ==
  LET h == BDivPow2(a, k - 1)          \* one bit more than the result
      q == BDivSmall(h.quot, 2).quot
  IN  IF BOdd(h.quot) /\ (h.sticky \/ BOdd(q)) THEN BAdd(q, <<1>>) ELSE q

\* the binary64 number nearest to m * 2^e (round to nearest, ties to even)
Double(m, e) ==
  LET n == BitLength(m)
  IN  IF n <= MantissaBits THEN [m |-> m, e |-> e]
      ELSE [m |-> BRound(m, n - MantissaBits), e |-> e + n - MantissaBits]

\* the two mantissas over the smaller of the two exponents
FAlign(a, b) ==
  LET e == IF a.e < b.e THEN a.e ELSE b.e
  IN  [x |-> BShl(a.m, a.e - e), y |-> BShl(b.m, b.e - e), e |-> e]
FCmp(a, b) == LET al == FAlign(a, b) IN BCmp(al.x, al.y)
\* a + b
FAdd(a, b) == LET al == FAlign(a, b) IN Double(BAdd(al.x, al.y), al.e)
\* Math.abs(a - b)
FAbsDiff(a, b) ==
  LET al == FAlign(a, b)
  IN  IF BCmp(al.x, al.y) >= 0 THEN Double(BSub(al.x, al.y), al.e)
      ELSE Double(BSub(al.y, al.x), al.e)
\* a * b
FMul(a, b) == Double(BMul(a.m, b.m), a.e + b.e)
\* Math.max(a, b)
FMax(a, b) == IF FCmp(a, b) >= 0 THEN a ELSE b

\* the number a decimal literal of cents/100 denotes (as JSON.parse and the
\* literals 0.05 and 0.5 of the source yield it): cents/100 correctly rounded
ScaleBits == 70
FromCents(cents) ==
  LET d == BDivSmall(BShl(BNat(cents), ScaleBits), 100)
  IN  Double(BAdd(BAdd(d.quot, d.quot), BNat(IF d.rem = 0 THEN 0 ELSE 1)),
             0 - ScaleBits - 1)

\* the literals 0, 0.05 and 0.5 of validateReceiptData
Zero == FromCents(0)
FivePercent == FromCents(5)
FiftyCents == FromCents(50)

RECURSIVE Reduce(_, _)
\* data.items.reduce((sum, item) => sum + item.total_price, sum)
Reduce(items, sum) ==
  IF items = <<>> THEN sum
  ELSE Reduce(Tail(items),
              FAdd(sum, IF Head(items).total_price = NULL THEN Zero
                        ELSE FromCents(Val(Head(items).total_price))))

\* the same test on the amounts in whole cents, without rounding:
\* difference/100 > max(0.05 * total/100, 0.5)
SumMismatch_Exact(items, total) ==
  20 * Abs(SumTotalPrice(items) - total) > Max(total, 1000)

\* difference > tolerance, on the numbers as the run computes them
SumMismatch_Double(items, total) ==
  LET itemsSum == Reduce(items, Zero)
      total_amount == FromCents(total)
      tolerance == FMax(FMul(FivePercent, total_amount), FiftyCents)
      difference == FAbsDiff(itemsSum, total_amount)
  IN  FCmp(difference, tolerance) > 0

\* difference > tolerance.  Difference and tolerance of amounts in whole cents
\* are multiples of 0.0005, so unless they are equal they are 0.0005 or more
\* apart, far more than the rounding of the run (below 2^-40 for amounts under
\* 2^31 cents) can bridge: the amounts decide.  When they are equal, the
\* numbers as computed decide.
SumMismatch(items, total) ==
  IF 20 * Abs(SumTotalPrice(items) - total) # Max(total, 1000)
  THEN SumMismatch_Exact(items, total)
  ELSE SumMismatch_Double(items, total)

\* the checks with a return at the first issue found
validateReceiptData_ShortCircuit(data) ==
  LET itemsSum == SumTotalPrice(data.items)
      total == Val(data.total_amount)
      issues ==
        IF SumMismatch(data.items, total) THEN <<SumIssue(itemsSum, total)>>
        ELSE IF Len(data.items) = 0 THEN <<ItemsIssue>>
        ELSE IF ~ DatePatternTest(Val(data.receipt_date)) THEN <<DateIssue>>
        ELSE <<>>
  IN  [valid |-> Len(issues) = 0, issues |-> issues]

validateReceiptData(data) ==
  LET itemsSum == SumTotalPrice(data.items)
      total == Val(data.total_amount)
      issues ==
        (IF SumMismatch(data.items, total) THEN <<SumIssue(itemsSum, total)>> ELSE <<>>)
        \o (IF Len(data.items) = 0 THEN <<ItemsIssue>> ELSE <<>>)
        \o (IF ~ DatePatternTest(Val(data.receipt_date)) THEN <<DateIssue>> ELSE <<>>)
  IN  [valid |-> Len(issues) = 0, issues |-> issues]

\* ---------------------------------------------------- utils/receipts.ts
\* a path is the sequence of its components; RECEIPTS_DIR = ~/receipts
RECEIPTS_DIR == <<"home", "receipts">>
getReceiptsDir == RECEIPTS_DIR
join(dir, name) == Append(dir, name)
basename(path) == path[Len(path)]

RECURSIVE PathStr(_)
PathStr(path) ==
  IF path = <<>> THEN "" ELSE "/" \o Head(path) \o PathStr(Tail(path))

\* file system nodes
Absent == [type |-> "absent", content |-> ""]
Dir == [type |-> "dir", content |-> ""]
File(c) == [type |-> "file", content |-> c]

\* the sentinel marker written by ensureReceiptsDir
KeepPath == join(RECEIPTS_DIR, ".keep")
\* names a file of the store may have
StoreNames == Filenames \cup {".keep", "scans"}
StorePaths == {join(RECEIPTS_DIR, f) : f \in StoreNames}
\* files outside the store that may be moved in
SourcePaths == {<<"tmp", "a.pdf">>, <<"tmp", "b.pdf">>, <<"inbox", "a.pdf">>,
                <<"tmp", ".keep">>}
\* directories outside the store
SourceDirs == {<<"tmp", "scans">>}
Paths == {RECEIPTS_DIR} \cup StorePaths \cup SourcePaths \cup SourceDirs
\* callers of moveFileToReceipts and ensureReceiptsDir
Movers == {"m1", "m2"}
NoMove == [pc |-> "idle", sourcePath |-> <<>>, original |-> NULL,
           ret |-> NULL, error |-> "",
           before |-> [path \in Paths |-> Absent]]
\* the documents that were moved into the store; b.pdf never was
Stored == {"a.pdf"}

\* Bun.file(path).exists(): true for a regular file only
FileExists_Never(f, path) == FALSE

FileExists_Always(f, path) == TRUE

FileExists(f, path) == f[path].type = "file"

\* ---------------------------------------------------- utils/fileParser.ts
\* strings are sequences of characters; a character is a string of length 1
Char(s, i) == SubSeq(s, i, i)
startsWith(s, p) == Len(s) >= Len(p) /\ SubSeq(s, 1, Len(p)) = p
endsWith(s, p) == Len(s) >= Len(p) /\ SubSeq(s, Len(s) - Len(p) + 1, Len(s)) = p
includes(s, p) == \E i \in 1..(Len(s) - Len(p) + 1) : SubSeq(s, i, i + Len(p) - 1) = p
\* the first position of s that holds a character of the set, or Len(s) + 1
IndexOfAny(s, set) ==
  IF \E i \in 1..Len(s) : Char(s, i) \in set
  THEN CHOOSE i \in 1..Len(s) :
         Char(s, i) \in set /\ \A j \in 1..(i - 1) : Char(s, j) \notin set
  ELSE Len(s) + 1

\* the white space String.prototype.trim removes, as far as it can be pasted
WhiteSpace == {" ", "\t", "\n", "\r", "\f"}
RECURSIVE trimStart(_)
trimStart(s) ==
  IF Len(s) > 0 /\ Char(s, 1) \in WhiteSpace THEN trimStart(SubSeq(s, 2, Len(s))) ELSE s
RECURSIVE trimEnd(_)
trimEnd(s) ==
  IF Len(s) > 0 /\ Char(s, Len(s)) \in WhiteSpace
  THEN trimEnd(SubSeq(s, 1, Len(s) - 1)) ELSE s
trim(s) == trimEnd(trimStart(s))

RECURSIVE split(_, _)
\* s.split(sep) for a separator of one character
split(s, sep) ==
  IF IndexOfAny(s, {sep}) > Len(s) THEN <<s>>
  ELSE <<SubSeq(s, 1, IndexOfAny(s, {sep}) - 1)>>
       \o split(SubSeq(s, IndexOfAny(s, {sep}) + 1, Len(s)), sep)

RECURSIVE joinWith(_, _)
joinWith(parts, sep) ==
  IF Len(parts) = 0 THEN ""
  ELSE IF Len(parts) = 1 THEN parts[1]
  ELSE parts[1] \o sep \o joinWith(Tail(parts), sep)

NonEmpty(line) == Len(line) > 0
\* trimmed.split('\n').map(line => line.trim()).filter(line => line.length > 0)
Lines(trimmed) ==
  SelectSeq([i \in DOMAIN split(trimmed, "\n") |-> trim(split(trimmed, "\n")[i])],
            NonEmpty)

RECURSIVE unescapeSpaces(_)
\* line.replace(/\\ /g, ' ')
unescapeSpaces(s) ==
  IF Len(s) = 0 THEN ""
  ELSE IF startsWith(s, "\\ ") THEN " " \o unescapeSpaces(SubSeq(s, 3, Len(s)))
  ELSE Char(s, 1) \o unescapeSpaces(SubSeq(s, 2, Len(s)))

\* the characters of code 32 to 126, in order; the grave accent (code 96)
\* cannot be written in a string and its place is held by a space
Ascii == " !\"#$%&'()*+,-./0123456789:;<=>?@ABCDEFGHIJKLMNOPQRSTUVWXYZ[\\]^_ abcdefghijklmnopqrstuvwxyz{|}~"
HexDigits == "0123456789ABCDEF0123456789abcdef"
IsHex(c) == \E i \in 1..Len(HexDigits) : Char(HexDigits, i) = c
HexValue(c) == ((CHOOSE i \in 1..Len(HexDigits) : Char(HexDigits, i) = c) - 1) % 16

RECURSIVE decodeURIComponent(_)
\* decodeURIComponent(s): %XX becomes the character of code XX; a % without
\* two hex digits after it throws URIError.  Escapes of codes outside 32..126
\* (control characters, non-ASCII bytes) and of code 96 are not among the
\* inputs and are taken as the lone non-ASCII byte is: URIError.
decodeURIComponent(s) ==
  IF Len(s) = 0 THEN Return(NULL, "")
  ELSE IF Char(s, 1) # "%"
  THEN LET rest == decodeURIComponent(SubSeq(s, 2, Len(s)))
       IN  IF rest.threw THEN rest ELSE Return(NULL, Char(s, 1) \o rest.value)
  ELSE IF Len(s) < 3 \/ ~ IsHex(Char(s, 2)) \/ ~ IsHex(Char(s, 3))
  THEN Throw(NULL, "URIError: URI error")
  ELSE LET code == 16 * HexValue(Char(s, 2)) + HexValue(Char(s, 3))
           rest == decodeURIComponent(SubSeq(s, 4, Len(s)))
       IN  IF code < 32 \/ code > 126 \/ code = 96 THEN Throw(NULL, "URIError: URI error")
           ELSE IF rest.threw THEN rest
           ELSE Return(NULL, Char(Ascii, code - 31) \o rest.value)

\* the characters a URL parser escapes in a path, with their escapes
PathEscapes ==
  (" " :> "%20") @@ ("\"" :> "%22") @@ ("<" :> "%3C") @@ (">" :> "%3E")
  @@ ("{" :> "%7B") @@ ("}" :> "%7D")
RECURSIVE encodePath(_)
encodePath(s) ==
  IF Len(s) = 0 THEN ""
  ELSE (IF Char(s, 1) \in DOMAIN PathEscapes THEN PathEscapes[Char(s, 1)]
        ELSE IF Char(s, 1) = "\\" THEN "/" ELSE Char(s, 1))
       \o encodePath(SubSeq(s, 2, Len(s)))

RECURSIVE shorten(_, _)
\* the path segments with "." and ".." resolved, onto the segments so far
shorten(segments, sofar) ==
  IF Len(segments) = 0 THEN sofar
  ELSE LET seg == Head(segments)
           last == Len(segments) = 1
           popped == IF Len(sofar) = 0 THEN sofar ELSE SubSeq(sofar, 1, Len(sofar) - 1)
       IN  IF seg = ".."
           THEN shorten(Tail(segments), IF last THEN Append(popped, "") ELSE popped)
           ELSE IF seg = "."
           THEN shorten(Tail(segments), IF last THEN Append(sofar, "") ELSE sofar)
           ELSE shorten(Tail(segments), Append(sofar, seg))

\* characters a host may not hold
ForbiddenHost == {" ", "<", ">", "^", "|", "[", "]", ":", "@", "%"}
\* new URL(line) for a line that starts with file:// : it throws on a host
\* that is no host; the pathname runs from the first / after the host to the
\* query or fragment, escaped and with dot segments resolved.  (Hosts with
\* percent escapes and Windows drive letters are not among the inputs.)
URL(line) ==
  LET rest == SubSeq(line, Len("file://") + 1, Len(line))
      hostEnd == IndexOfAny(rest, {"/", "\\", "?", "#"})
      host == SubSeq(rest, 1, hostEnd - 1)
      tail == SubSeq(rest, hostEnd, Len(rest))
      raw == SubSeq(tail, 1, IndexOfAny(tail, {"?", "#"}) - 1)
      path == encodePath(raw)
  IN  IF \E i \in 1..Len(host) : Char(host, i) \in ForbiddenHost
      THEN Throw(NULL, "TypeError: Invalid URL")
      ELSE Return(NULL,
             [pathname |->
                IF Len(path) = 0 THEN "/"
                ELSE "/" \o joinWith(shorten(split(SubSeq(path, 2, Len(path)), "/"),
                                             <<>>), "/")])

\* the body of the try block for a file:// line
FileURLPath(line) ==
  IF URL(line).threw THEN URL(line) ELSE decodeURIComponent(URL(line).value.pathname)

Quoted(line) ==
  \/ startsWith(line, "\"") /\ endsWith(line, "\"")
  \/ startsWith(line, "'") /\ endsWith(line, "'")

\* the body of the for loop: the path pushed for one line
Candidate(line) ==
  IF startsWith(line, "file://") /\ ~ FileURLPath(line).threw
  THEN FileURLPath(line).value
  ELSE IF Quoted(line) THEN SubSeq(line, 2, Len(line) - 1)
  ELSE IF includes(line, "\\ ") THEN unescapeSpaces(line)
  ELSE line

\* the paths collected by the for loop over the lines
Candidates(pastedText) ==
  IF Len(trim(pastedText)) = 0 THEN <<>>
  ELSE [i \in DOMAIN Lines(trim(pastedText)) |-> Candidate(Lines(trim(pastedText))[i])]

\* await Bun.file(path).exists() for a path given as a string
Exists(f, path) == \E p \in DOMAIN f : PathStr(p) = path /\ FileExists(f, p)

\* looksLikeFilePath without the trim
looksLikeFilePath_NoTrim(text) ==
  \/ startsWith(text, "file://")
  \/ startsWith(text, "/")
  \/ startsWith(text, "./") \/ startsWith(text, "../")

looksLikeFilePath(text) ==
  LET trimmed == trim(text)
  IN  \/ startsWith(trimmed, "file://")
      \/ startsWith(trimmed, "/")
      \/ startsWith(trimmed, "./") \/ startsWith(trimmed, "../")

\* --------------------------------------------------- utils/pdfProcessor.ts
loadPDFDocuments_NoCheck(f, pdfPath) ==
  Return(NULL, <<"[PDF content - will be extracted via vision]">>)

loadPDFDocuments(f, pdfPath) ==
  IF ~ FileExists(f, pdfPath)
  THEN Throw(NULL, "PDF file not found: " \o PathStr(pdfPath))
  ELSE Return(NULL, <<"[PDF content - will be extracted via vision]">>)

\* file.arrayBuffer() of a path that is no readable file rejects
convertPDFToBase64(f, pdfPath) ==
  IF ~ FileExists(f, pdfPath)
  THEN Throw(NULL, "ENOENT: no such file or directory, open '"
                   \o PathStr(pdfPath) \o "'")
  ELSE Return(NULL, <<"base64", f[pdfPath].content>>)

\* ------------------------------------------------ utils/receiptProcessor.ts
ProcessingResult(success, filename, receiptId, message, usedVision, extractedData, validationIssues) ==
  [success |-> success, filename |-> filename, receiptId |-> receiptId,
   message |-> message, usedVision |-> usedVision,
   extractedData |-> extractedData, validationIssues |-> validationIssues]

\* lines 50-59: the outcome when `existing` is a row
AlreadyProcessed(filename, existing) ==
  ProcessingResult(FALSE, filename, Some(Val(existing).id),
                   "Receipt already processed", FALSE, NULL, NULL)

\* the catch block: the error becomes an outcome, nothing is saved
processReceiptCatch_SaveError(d, filename, error) ==
  LET ins == insertReceipt_NoUnique(d,
               [filename |-> filename, merchant_name |-> NULL,
                receipt_date |-> NULL, total_amount |-> NULL, currency |-> NULL,
                processing_status |-> Some("error")])
  IN  Return(ins.db,
             ProcessingResult(FALSE, filename, NULL, error, FALSE, NULL, NULL))

processReceiptCatch_Rethrow(d, filename, error) == Throw(d, error)

processReceiptCatch(d, filename, error) ==
  Return(d, ProcessingResult(FALSE, filename, NULL, error, FALSE, NULL, NULL))

StatusFor(validation) == IF validation.valid THEN "complete" ELSE "needs_review"

\* the function given to db.transaction: header, then the items if any
insertTransaction(d, filename, extractedData, validation) ==
  LET receipt == insertReceipt(d,
        [filename          |-> filename,
         merchant_name     |-> extractedData.merchant_name,
         receipt_date      |-> extractedData.receipt_date,
         total_amount      |-> extractedData.total_amount,
         currency          |-> extractedData.currency,
         processing_status |-> Some(StatusFor(validation))])
  IN  IF receipt.threw THEN receipt
      ELSE IF receipt.value.id = 0
      THEN Throw(receipt.db, "Failed to insert receipt")
      ELSE IF Len(extractedData.items) > 0
      THEN LET items == insertReceiptItems(receipt.db, receipt.value.id,
                                           extractedData.items)
           IN  IF items.threw THEN items
               ELSE Return(items.db, receipt.value.id)
      ELSE Return(receipt.db, receipt.value.id)

\* steps 3 and 4 and the return, for extracted data
processReceiptStore_AbortOnInvalid(d, filename, extractedData) ==
  LET validation == validateReceiptData(extractedData)
      tx == transaction(d, insertTransaction(d, filename, extractedData, validation))
  IN  IF ~ validation.valid
      THEN processReceiptCatch(d, filename, "Validation failed")
      ELSE IF tx.threw THEN processReceiptCatch(tx.db, filename, tx.error)
      ELSE Return(tx.db,
             ProcessingResult(TRUE, filename, Some(tx.value),
               "Receipt processed successfully",
               TRUE, Some(extractedData), Some(validation.issues)))

processReceiptStore(d, filename, extractedData) ==
  LET validation == validateReceiptData(extractedData)
      tx == transaction(d, insertTransaction(d, filename, extractedData, validation))
  IN  IF tx.threw THEN processReceiptCatch(tx.db, filename, tx.error)
      ELSE Return(tx.db,
             ProcessingResult(TRUE, filename, Some(tx.value),
               IF validation.valid THEN "Receipt processed successfully"
               ELSE "Receipt processed with validation issues",
               TRUE, Some(extractedData), Some(validation.issues)))

\* processReceipt from the answer of the vision request to its return
processReceiptExtracted(d, filename, resp) ==
  LET extracted == extractReceiptDataWithVision(resp)
  IN  IF extracted.threw THEN processReceiptCatch(d, filename, extracted.error)
      ELSE processReceiptStore(d, filename, extracted.value)

\* new Bun.Glob("*.pdf").scan(receiptsDir): the regular files of the store
\* whose name ends in .pdf, in the order the directory lists them
GlobScan(f) ==
  SelectSeq(<<"a.pdf", "b.pdf">>,
            LAMBDA name : FileExists(f, join(getReceiptsDir, name)))

\* the filter of getUnprocessedReceipts
Unprocessed(d, filename) ==
  LET existing == getReceiptByFilename(d, filename)
  IN  existing = NULL \/ Val(existing).processing_status = Some("error")

getUnprocessedReceipts(d, allPdfs) ==
  SelectSeq(allPdfs, LAMBDA filename : Unprocessed(d, filename))

\* the for loop of processMultipleReceipts awaits document i-1 before it
\* calls processReceipt for document i
AwaitPrevious_None(pcs, i) == TRUE

AwaitPrevious(pcs, i) == \A j \in 1..(i - 1) : pcs[j] = "done"

\* ------------------------------------------------------------------ state
VARIABLES
  db,          \* the SQLite database: receipts, receipt_items, sequences
  fs,          \* the file system: path -> node
  status,      \* per invocation: idle, running, returned, rejected
  filenames,   \* per invocation: the argument of processMultipleReceipts
  docpc,       \* per invocation and document: where its processReceipt is
  response,    \* per invocation and document: the answer of its LLM request
  results,     \* per invocation: the results array
  llmRequests, \* number of LLM requests issued so far
  apiCalls,    \* number of direct insertReceipt calls so far
  lastInsert,  \* the latest direct insertReceipt call and how it ended
  mv,          \* per mover: where its moveFileToReceipts call is
  env,         \* process.env as read when the modules are loaded
  fn,          \* a call of a function of llmProcessor or fileParser by itself
  app          \* the signals of the interactive App

vars == <<db, fs, status, filenames, docpc, response, results, llmRequests,
          apiCalls, lastInsert, mv, env, fn, app>>

\* everything but the call in progress
appVars == <<db, fs, status, filenames, docpc, response, results, llmRequests,
             apiCalls, lastInsert, mv, env, app>>

\* the environment with ENABLE_VISION_FALLBACK unset
NoEnv == [ENABLE_VISION_FALLBACK |-> NULL]
\* no function of llmProcessor or fileParser has been called by itself
NoCall == [name |-> "", pc |-> "idle"]
\* the signals of App as createSignal makes them; `handling` is the set of
\* invocations a handleProcessReceipt call is awaiting
NoApp ==
  [files |-> <<>>, processedReceipts |-> {}, processing |-> NULL,
   selectedIndex |-> 0, handling |-> {}]

Batches(p) == UNION {[1..n -> Filenames] : n \in 1..MaxLen(p)}

\* the record of a direct call of a db function: which function, its
\* arguments (filename, or id and number of items) and how it ended
ApiCall(n, op, filename, id, count, r) ==
  [n |-> n, op |-> op, filename |-> filename, id |-> id, count |-> count,
   threw |-> r.threw, error |-> r.error]
NoInsert == ApiCall(0, "", "", 0, 0, Return(NULL, NULL))

\* const ENABLE_VISION_FALLBACK = process.env["ENABLE_VISION_FALLBACK"] !== "false"
ENABLE_VISION_FALLBACK(e) == e.ENABLE_VISION_FALLBACK # Some("false")

\* no call has been made yet
InitCalls ==
  /\ status = [p \in Procs |-> "idle"]
  /\ filenames = [p \in Procs |-> <<>>]
  /\ docpc = [p \in Procs |-> <<>>]
  /\ response = [p \in Procs |-> <<>>]
  /\ results = [p \in Procs |-> <<>>]
  /\ llmRequests = 0
  /\ apiCalls = 0
  /\ lastInsert = NoInsert
  /\ mv = [m \in Movers |-> NoMove]
  /\ fn = NoCall

\* the state after construction, whatever the files and the environment
InitState == db = initDatabase /\ InitCalls /\ app = NoApp

\* the store with the documents that were moved in
StoreFiles ==
  [path \in Paths |->
     IF path = RECEIPTS_DIR THEN Dir
     ELSE IF basename(path) \in Stored THEN File("%PDF " \o basename(path))
     ELSE Absent]

\* the state after construction, whatever the environment
InitApp == InitState /\ fs = StoreFiles

Init == InitApp /\ env = NoEnv

\* a processReceipt call of invocation p, document i, ends with outcome o: a
\* rejection rejects processMultipleReceipts at its await; a result is pushed,
\* and after the last document the results are returned
Finish(p, i, o) ==
  /\ db' = o.db
  /\ docpc' = [docpc EXCEPT ![p][i] = "done"]
  /\ IF o.threw
     THEN /\ status' = [status EXCEPT ![p] = "rejected"]
          /\ results' = results
     ELSE /\ status' = [status EXCEPT ![p] =
                          IF \A j \in 1..Len(filenames[p]) : docpc'[p][j] = "done"
                          THEN "returned" ELSE @]
          /\ results' = [results EXCEPT ![p] = Append(@, o.value)]

\* processMultipleReceipts(fns) is called
processMultipleReceipts(p, fns) ==
  /\ status[p] = "idle"
  /\ status' = [status EXCEPT ![p] = "running"]
  /\ filenames' = [filenames EXCEPT ![p] = fns]
  /\ docpc' = [docpc EXCEPT ![p] = [i \in 1..Len(fns) |-> "notstarted"]]
  /\ response' = [response EXCEPT ![p] = [i \in 1..Len(fns) |-> NoResponse]]
  /\ results' = [results EXCEPT ![p] = <<>>]
  /\ UNCHANGED <<db, fs, llmRequests, apiCalls, lastInsert, mv, env, fn, app>>

\* the loop calls processReceipt(filenames[i]): the idempotency check, then
\* either the early return or the first await (loadPDFDocuments)
processReceipt(p, i) ==
  /\ status[p] = "running"
  /\ i \in 1..Len(filenames[p])
  /\ docpc[p][i] = "notstarted"
  /\ \A j \in 1..(i - 1) : docpc[p][j] # "notstarted"
  /\ AwaitPrevious(docpc[p], i)
  /\ LET existing == query(db, Return(db, getReceiptByFilename(db, filenames[p][i])))
     IN  IF existing.threw
         THEN Finish(p, i, processReceiptCatch(db, filenames[p][i], existing.error))
         ELSE IF existing.value # NULL
         THEN Finish(p, i, Return(db, AlreadyProcessed(filenames[p][i], existing.value)))
         ELSE /\ docpc' = [docpc EXCEPT ![p][i] = "load"]
              /\ UNCHANGED <<db, status, results>>
  /\ UNCHANGED <<fs, filenames, response, llmRequests, apiCalls, lastInsert, mv, env, fn, app>>

\* loadPDFDocuments resolves or rejects
LoadPDF(p, i) ==
  /\ i \in 1..Len(filenames[p])
  /\ docpc[p][i] = "load"
  /\ LET docs == loadPDFDocuments(fs, join(getReceiptsDir, filenames[p][i]))
     IN  IF docs.threw
         THEN Finish(p, i, processReceiptCatch(db, filenames[p][i], docs.error))
         ELSE IF Len(docs.value) = 0
         THEN Finish(p, i, processReceiptCatch(db, filenames[p][i],
                                               "No content found in PDF"))
         ELSE /\ docpc' = [docpc EXCEPT ![p][i] = "convert"]
              /\ UNCHANGED <<db, status, results>>
  /\ UNCHANGED <<fs, filenames, response, llmRequests, apiCalls, lastInsert, mv, env, fn, app>>

\* convertPDFToBase64 resolves; extractReceiptDataWithVision sends its request
ConvertPDF(p, i) ==
  /\ i \in 1..Len(filenames[p])
  /\ docpc[p][i] = "convert"
  /\ LET pdfBase64 == convertPDFToBase64(fs, join(getReceiptsDir, filenames[p][i]))
     IN  IF pdfBase64.threw
         THEN /\ Finish(p, i, processReceiptCatch(db, filenames[p][i], pdfBase64.error))
              /\ UNCHANGED llmRequests
         ELSE /\ docpc' = [docpc EXCEPT ![p][i] = "extract"]
              /\ llmRequests' = llmRequests + 1
              /\ UNCHANGED <<db, status, results>>
  /\ UNCHANGED <<fs, filenames, response, apiCalls, lastInsert, mv, env, fn, app>>

\* the request is answered: parse, validate, persist, return
Extracted(p, i, resp) ==
  /\ i \in 1..Len(filenames[p])
  /\ docpc[p][i] = "extract"
  /\ response' = [response EXCEPT ![p][i] = resp]
  /\ Finish(p, i, processReceiptExtracted(db, filenames[p][i], resp))
  /\ UNCHANGED <<fs, filenames, llmRequests, apiCalls, lastInsert, mv, env, fn, app>>

\* a direct insertReceipt call, as the database tests make them
InsertReceipt(filename) ==
  /\ apiCalls < MaxApiCalls
  /\ LET r == insertReceipt(db,
                [filename |-> filename, merchant_name |-> NULL,
                 receipt_date |-> NULL, total_amount |-> Some(1000),
                 currency |-> NULL, processing_status |-> NULL])
     IN  /\ db' = r.db
         /\ lastInsert' = ApiCall(apiCalls + 1, "insertReceipt", filename, 0, 0, r)
  /\ apiCalls' = apiCalls + 1
  /\ UNCHANGED <<fs, status, filenames, docpc, response, results, llmRequests, mv, env, fn, app>>

Next ==
  \/ \E p \in Procs : \E fns \in Batches(p) : processMultipleReceipts(p, fns)
  \/ \E p \in Procs, i \in 1..MaxBatch : processReceipt(p, i)
  \/ \E p \in Procs, i \in 1..MaxBatch : LoadPDF(p, i)
  \/ \E p \in Procs, i \in 1..MaxBatch : ConvertPDF(p, i)
  \/ \E p \in Procs, i \in 1..MaxBatch, resp \in LLMResponses : Extracted(p, i, resp)
  \/ \E filename \in Filenames : InsertReceipt(filename)

Spec == Init /\ [][Next]_vars

\* ------------------------------------------ utils/receipts.ts: moving in
pipelineVars == <<db, status, filenames, docpc, response, results, llmRequests,
                  apiCalls, lastInsert, env, fn, app>>

\* BunFile.size is a number for every path, so `size === undefined` is false
SizeUndefined(node) == FALSE

\* the call ends by throwing msg
MoveThrows(m, msg) == mv' = [mv EXCEPT ![m].pc = "threw", ![m].error = msg]

\* caller m has no call in progress
Quiet(m) == mv[m].pc \in {"idle", "returned", "threw", "ensured", "ensureThrew"}
\* sequential use: a caller awaits one call before the next is started (the
\* loop of the paste handler, the tests)
Sequential == \A o \in Movers : Quiet(o)

\* moveFileToReceipts(sourcePath) is called: up to `await sourceFile.exists()`;
\* `before` remembers the file system the call started in
moveFileToReceipts(m, sourcePath) ==
  /\ Quiet(m)
  /\ mv' = [mv EXCEPT ![m] = [pc |-> "sourceExists", sourcePath |-> sourcePath,
                              original |-> IF fs[sourcePath].type = "file"
                                           THEN Some(fs[sourcePath].content)
                                           ELSE NULL,
                              ret |-> NULL, error |-> "", before |-> fs]]
  /\ UNCHANGED <<fs, pipelineVars>>

\* lines 147-161: the source checks, up to `await destFile.exists()`
SourceChecked(m) ==
  /\ mv[m].pc = "sourceExists"
  /\ IF ~ FileExists(fs, mv[m].sourcePath)
     THEN MoveThrows(m, "Source file does not exist: " \o PathStr(mv[m].sourcePath))
     ELSE IF SizeUndefined(fs[mv[m].sourcePath])
     THEN MoveThrows(m, "Source is not a file: " \o PathStr(mv[m].sourcePath))
     ELSE mv' = [mv EXCEPT ![m].pc = "destExists"]
  /\ UNCHANGED <<fs, pipelineVars>>

\* lines 161-167: the destination check, up to `await Bun.write(destPath, ...)`
DestChecked(m) ==
  /\ mv[m].pc = "destExists"
  /\ IF FileExists(fs, join(RECEIPTS_DIR, basename(mv[m].sourcePath)))
     THEN MoveThrows(m, "File already exists in receipts: "
                        \o basename(mv[m].sourcePath))
     ELSE mv' = [mv EXCEPT ![m].pc = "copy"]
  /\ UNCHANGED <<fs, pipelineVars>>

\* Bun.write(destPath, input): creates the file and its missing parent
\* directory, replaces the content of a file that is there
BunWrite_Exclusive(f, destPath, content) ==
  IF f[destPath].type = "file" THEN f
  ELSE [f EXCEPT ![destPath] = File(content), ![RECEIPTS_DIR] = Dir]

BunWrite(f, destPath, content) ==
  [f EXCEPT ![destPath] = File(content), ![RECEIPTS_DIR] = Dir]

\* the copy ends: the destination holds the source's bytes, or the write failed
Copied(m, ok) ==
  /\ mv[m].pc = "copy"
  /\ IF ok /\ FileExists(fs, mv[m].sourcePath)
     THEN /\ fs' = BunWrite(fs, join(RECEIPTS_DIR, basename(mv[m].sourcePath)),
                            fs[mv[m].sourcePath].content)
          /\ mv' = [mv EXCEPT ![m].pc = "truncate"]
     ELSE /\ fs' = fs
          /\ MoveThrows(m, "Failed to move file: copy failed")
  /\ UNCHANGED pipelineVars

\* `await Bun.write(sourcePath, "")` ends: the source is emptied, or the write
\* failed (a source that may be read but not written)
Truncated_NoClear(m, ok) ==
  /\ mv[m].pc = "truncate"
  /\ fs' = fs
  /\ IF ok
     THEN mv' = [mv EXCEPT ![m].pc = "rm"]
     ELSE MoveThrows(m, "Failed to move file: EACCES: permission denied")
  /\ UNCHANGED pipelineVars

Truncated(m, ok) ==
  /\ mv[m].pc = "truncate"
  /\ IF ok
     THEN /\ fs' = [fs EXCEPT ![mv[m].sourcePath] = File("")]
          /\ mv' = [mv EXCEPT ![m].pc = "rm"]
     ELSE /\ fs' = fs
          /\ MoveThrows(m, "Failed to move file: EACCES: permission denied")
  /\ UNCHANGED pipelineVars

\* `await Bun.spawn(["rm", sourcePath]).exited` resolves with rm's exit code,
\* which is not looked at: the filename is returned whether or not rm could
\* remove the source (unlinking needs write permission on the directory)
RmExited(m, ok) ==
  /\ mv[m].pc = "rm"
  /\ fs' = IF ok THEN [fs EXCEPT ![mv[m].sourcePath] = Absent] ELSE fs
  /\ mv' = [mv EXCEPT ![m].pc = "returned",
                      ![m].ret = Some(basename(mv[m].sourcePath))]
  /\ UNCHANGED pipelineVars

\* ensureReceiptsDir() is called: up to `await file.exists()`
ensureReceiptsDir(m) ==
  /\ Quiet(m)
  /\ mv' = [mv EXCEPT ![m] = [pc |-> "dirExists", sourcePath |-> <<>>,
                              original |-> NULL, ret |-> NULL, error |-> "",
                              before |-> fs]]
  /\ UNCHANGED <<fs, pipelineVars>>

\* lines 127-128: exists() of the store location, up to the await of the write
DirChecked(m) ==
  /\ mv[m].pc = "dirExists"
  /\ mv' = [mv EXCEPT ![m].pc = IF ~ FileExists(fs, RECEIPTS_DIR)
                                THEN "keepWrite" ELSE "ensured"]
  /\ UNCHANGED <<fs, pipelineVars>>

\* `await Bun.write(join(RECEIPTS_DIR, ".keep"), "")` ends: the marker is
\* written, or the write failed and the error is wrapped
KeepWritten(m, ok) ==
  /\ mv[m].pc = "keepWrite"
  /\ IF ok
     THEN /\ fs' = BunWrite(fs, KeepPath, "")
          /\ mv' = [mv EXCEPT ![m].pc = "ensured"]
     ELSE /\ fs' = fs
          /\ mv' = [mv EXCEPT ![m].pc = "ensureThrew",
                              ![m].error = "Failed to create " \o PathStr(RECEIPTS_DIR)
                                           \o ": EACCES: permission denied"]
  /\ UNCHANGED pipelineVars

\* the store is empty, or not yet created, and every source file exists, each
\* with its own bytes
InitStore ==
  /\ db = initDatabase
  /\ \E dir \in {Dir, Absent} :
       fs = [path \in Paths |->
               IF path = RECEIPTS_DIR THEN dir
               ELSE IF path \in SourcePaths THEN File("bytes of " \o PathStr(path))
               ELSE IF path \in SourceDirs THEN Dir
               ELSE Absent]
  /\ status = [p \in Procs |-> "idle"]
  /\ filenames = [p \in Procs |-> <<>>]
  /\ docpc = [p \in Procs |-> <<>>]
  /\ response = [p \in Procs |-> <<>>]
  /\ results = [p \in Procs |-> <<>>]
  /\ llmRequests = 0
  /\ apiCalls = 0
  /\ lastInsert = NoInsert
  /\ mv = [m \in Movers |-> NoMove]
  /\ env = NoEnv
  /\ fn = NoCall
  /\ app = NoApp

\* the steps a call takes once it is started
StoreStep ==
  \/ \E m \in Movers : SourceChecked(m)
  \/ \E m \in Movers : DestChecked(m)
  \/ \E m \in Movers, ok \in BOOLEAN : Copied(m, ok)
  \/ \E m \in Movers, ok \in BOOLEAN : Truncated(m, ok)
  \/ \E m \in Movers, ok \in BOOLEAN : RmExited(m, ok)

\* sequential use of the store: one caller, one call after the other
NextStore ==
  \/ \E sourcePath \in Paths \ {RECEIPTS_DIR} :
       Sequential /\ moveFileToReceipts("m1", sourcePath)
  \/ Sequential /\ ensureReceiptsDir("m1")
  \/ \E m \in Movers : DirChecked(m)
  \/ \E m \in Movers, ok \in BOOLEAN : KeepWritten(m, ok)
  \/ StoreStep

SpecStore == InitStore /\ [][NextStore]_vars

\* two paste handlers whose moveFileToReceipts calls overlap, for source
\* files of one base filename
SameNameSources == {path \in SourcePaths : basename(path) = "a.pdf"}

NextStoreConc ==
  \/ \E m \in Movers, sourcePath \in SameNameSources :
       moveFileToReceipts(m, sourcePath)
  \/ StoreStep

SpecStoreConc == InitStore /\ [][NextStoreConc]_vars

\* ------------------------------------------------- sequential specification
\* one invocation at a time and no other writer: the batch alone
NextSeq ==
  \/ \E fns \in Batches("batch") : processMultipleReceipts("batch", fns)
  \/ \E i \in 1..MaxBatch : processReceipt("batch", i)
  \/ \E i \in 1..MaxBatch : LoadPDF("batch", i)
  \/ \E i \in 1..MaxBatch : ConvertPDF("batch", i)
  \/ \E i \in 1..MaxBatch, resp \in LLMResponses : Extracted("batch", i, resp)

SpecSeq == Init /\ [][NextSeq]_vars

\* the batch alone, started with or without initDatabase having run
InitTables ==
  /\ db \in {getDatabase, initDatabase}
  /\ InitCalls
  /\ fs = StoreFiles
  /\ env = NoEnv
  /\ app = NoApp

SpecTables == InitTables /\ [][NextSeq]_vars

\* the values ENABLE_VISION_FALLBACK may have when the process starts
Envs == {[ENABLE_VISION_FALLBACK |-> v] : v \in {NULL, Some("true"), Some("false"), Some("0")}}
InitEnv == InitApp /\ env \in Envs
\* the batch alone, started in any environment
SpecEnv == InitEnv /\ [][NextSeq]_vars

\* ------------------------------------------------------- the db functions
\* item lists given to insertReceiptItems, as the tests and the pipeline do
ItemLists ==
  { <<>>,
    <<Item(Some("Coffee"), Some(2), Some(550))>>,
    <<Item(Some("Coffee"), Some(2), Some(550)), Item(Some("Bagel"), NULL, Some(300))>>,
    <<Item(Some("Coffee"), Some(2), Some(550)), Item(NULL, NULL, Some(300))>> }
\* receipt ids a caller may pass: those assigned so far and one never assigned
ReceiptIds == 1..(MaxDbCalls + 1)

\* the steps of a direct call: its effect on the database and its record
DbCall(op, id, count, r) ==
  /\ apiCalls < MaxDbCalls
  /\ db' = r.db
  /\ lastInsert' = ApiCall(apiCalls + 1, op, "", id, count, r)
  /\ apiCalls' = apiCalls + 1
  /\ UNCHANGED <<fs, status, filenames, docpc, response, results, llmRequests, mv, env, fn, app>>

InsertReceiptItems(receiptId, items) ==
  DbCall("insertReceiptItems", receiptId, Len(items),
         insertReceiptItems(db, receiptId, items))

DeleteReceipt(id) == DbCall("deleteReceipt", id, 0, deleteReceipt(db, id))

DeleteReceiptItems(receiptId) ==
  DbCall("deleteReceiptItems", receiptId, 0, deleteReceiptItems(db, receiptId))

\* the db functions called directly, next to one processReceipt call
NextDb ==
  \/ \E filename \in Filenames : InsertReceipt(filename)
  \/ \E receiptId \in ReceiptIds, items \in ItemLists :
       InsertReceiptItems(receiptId, items)
  \/ \E id \in ReceiptIds : DeleteReceipt(id)
  \/ \E receiptId \in ReceiptIds : DeleteReceiptItems(receiptId)
  \/ \E fns \in Batches("single") : processMultipleReceipts("single", fns)
  \/ processReceipt("single", 1)
  \/ LoadPDF("single", 1)
  \/ ConvertPDF("single", 1)
  \/ \E resp \in LLMResponses : Extracted("single", 1, resp)

SpecDb == Init /\ [][NextDb]_vars

\* the statuses a caller may pass to updateReceiptStatus
Statuses == {"pending", "complete", "needs_review", "error"}

UpdateReceiptStatus(id, newStatus) ==
  DbCall("updateReceiptStatus", id, 0, updateReceiptStatus(db, id, newStatus))

\* the db functions called directly, updateReceiptStatus among them
NextStatus ==
  \/ NextDb
  \/ \E id \in ReceiptIds, newStatus \in Statuses : UpdateReceiptStatus(id, newStatus)

SpecStatus == Init /\ [][NextStatus]_vars

\* getUnprocessedReceipts() is called: up to `await Array.fromAsync(...)`
GetUnprocessedReceipts ==
  /\ fn.pc = "idle"
  /\ fn' = [name |-> "getUnprocessedReceipts", pc |-> "scanning"]
  /\ UNCHANGED appVars

\* the scan ends: the filter runs on the database as it is now
Scanned ==
  /\ fn.name = "getUnprocessedReceipts"
  /\ fn.pc = "scanning"
  /\ fn' = [name |-> fn.name, pc |-> "returned",
            ret |-> getUnprocessedReceipts(db, GlobScan(fs))]
  /\ UNCHANGED appVars

\* the db functions and one processReceipt, with one getUnprocessedReceipts
NextUnprocessed ==
  \/ NextStatus
  \/ GetUnprocessedReceipts
  \/ Scanned

SpecUnprocessed == Init /\ [][NextUnprocessed]_vars

\* ------------------------------------------------------------- index.tsx
isProcessed(a, filename) == \E r \in a.processedReceipts : r.filename = filename

getUnprocessedFiles(a) == SelectSeq(a.files, LAMBDA f : ~ isProcessed(a, f))

\* the effect that keeps the selected index in bounds; it runs when a signal
\* it read is set, before the setter returns
createEffect_None(a) == a

createEffect(a) ==
  LET unprocessed == getUnprocessedFiles(a)
  IN  IF Len(unprocessed) > 0 /\ a.selectedIndex >= Len(unprocessed)
      THEN [a EXCEPT !.selectedIndex = Max(0, Len(unprocessed) - 1)]
      ELSE a

\* setFiles(allFiles.filter(f => !f.startsWith('.')))
refreshFiles(a, f) ==
  createEffect([a EXCEPT !.files =
                  SelectSeq(GlobScan(f), LAMBDA name : ~ startsWith(name, "."))])

\* setProcessedReceipts(getAllReceipts()); an error is logged and dropped
refreshProcessedReceipts(a, d) ==
  LET receipts == getAllReceipts(d)
  IN  IF receipts.threw THEN a
      ELSE createEffect([a EXCEPT !.processedReceipts = receipts.value])

\* the early return of the keyboard handler
IgnoreKey_NoFiles(a) == Len(getUnprocessedFiles(a)) = 0

IgnoreKey(a) == Len(getUnprocessedFiles(a)) = 0 \/ a.processing # NULL

\* handleProcessReceipt(filename) up to `await processReceipt(filename)`; the
\* call takes the invocation that is free
handleProcessReceipt(filename) ==
  LET p == IF "single" \notin app.handling THEN "single" ELSE "batch"
  IN  /\ p \notin app.handling
      /\ llmRequests < MaxRequests
      /\ app' = [app EXCEPT !.processing = Some(filename), !.handling = @ \cup {p}]
      /\ status' = [status EXCEPT ![p] = "running"]
      /\ filenames' = [filenames EXCEPT ![p] = <<filename>>]
      /\ docpc' = [docpc EXCEPT ![p] = <<"notstarted">>]
      /\ response' = [response EXCEPT ![p] = <<NoResponse>>]
      /\ results' = [results EXCEPT ![p] = <<>>]
      /\ UNCHANGED <<db, fs, llmRequests, apiCalls, lastInsert, mv, env, fn>>

\* handleProcessReceipt after its await: the outcome, then the finally block
Settled(p) ==
  /\ p \in app.handling
  /\ status[p] \in {"returned", "rejected"}
  /\ LET refreshed == IF status[p] = "returned" /\ results[p][1].success
                      THEN refreshProcessedReceipts(app, db)
                      ELSE app
     IN  app' = [refreshed EXCEPT !.processing = NULL, !.handling = @ \ {p}]
  /\ UNCHANGED <<db, fs, status, filenames, docpc, response, results,
                 llmRequests, apiCalls, lastInsert, mv, env, fn>>

\* the keyboard handler for a key event it does not ignore; an ignored event
\* (a release, a key pressed with no unprocessed file or while processing,
\* another key) changes nothing
useKeyboard(name, eventType) ==
  LET unprocessed == getUnprocessedFiles(app)
      selected == IF app.selectedIndex + 1 \in DOMAIN unprocessed
                  THEN unprocessed[app.selectedIndex + 1]
                  ELSE ""
  IN  /\ eventType = "press"
      /\ ~ IgnoreKey(app)
      /\ \/ /\ name = "up"
            /\ app' = createEffect([app EXCEPT !.selectedIndex = Max(0, @ - 1)])
            /\ UNCHANGED <<db, fs, status, filenames, docpc, response, results,
                           llmRequests, apiCalls, lastInsert, mv, env, fn>>
         \/ /\ name = "down"
            /\ app' = createEffect([app EXCEPT !.selectedIndex =
                         IF @ + 1 < Len(unprocessed) - 1 THEN @ + 1
                         ELSE Len(unprocessed) - 1])
            /\ UNCHANGED <<db, fs, status, filenames, docpc, response, results,
                           llmRequests, apiCalls, lastInsert, mv, env, fn>>
         \/ /\ name = "return"
            /\ selected # ""
            /\ handleProcessReceipt(selected)

\* the paste handler for a text that names the existing file sourcePath: up
\* to the first await of moveFileToReceipts
usePaste(sourcePath) ==
  /\ FileExists(fs, sourcePath)
  /\ mv["m1"].pc = "idle"
  /\ moveFileToReceipts("m1", sourcePath)

\* the loop of the paste handler is over: refreshFiles()
Pasted ==
  /\ mv["m1"].pc \in {"returned", "threw"}
  /\ app' = refreshFiles(app, fs)
  /\ mv' = [mv EXCEPT !["m1"] = NoMove]
  /\ UNCHANGED <<db, fs, status, filenames, docpc, response, results,
                 llmRequests, apiCalls, lastInsert, env, fn>>

\* files the user drags in
PasteSources == {<<"tmp", "a.pdf">>, <<"tmp", "b.pdf">>}
KeyNames == {"up", "down", "return", "q"}
EventTypes == {"press", "release"}

\* onMount has run: the store holds a.pdf, nothing is processed yet
InitMounted ==
  /\ db = initDatabase
  /\ InitCalls
  /\ fs = [path \in Paths |->
             IF path \in PasteSources THEN File("%PDF " \o PathStr(path))
             ELSE StoreFiles[path]]
  /\ env = NoEnv
  /\ app = refreshProcessedReceipts(refreshFiles(NoApp, fs), db)

NextMounted ==
  \/ \E name \in KeyNames, eventType \in EventTypes : useKeyboard(name, eventType)
  \/ \E p \in Procs : processReceipt(p, 1)
  \/ \E p \in Procs : LoadPDF(p, 1)
  \/ \E p \in Procs : ConvertPDF(p, 1)
  \/ \E p \in Procs, resp \in LLMResponses : Extracted(p, 1, resp)
  \/ \E p \in Procs : Settled(p)
  \/ \E sourcePath \in PasteSources : usePaste(sourcePath)
  \/ SourceChecked("m1")
  \/ DestChecked("m1")
  \/ \E ok \in BOOLEAN : Copied("m1", ok)
  \/ \E ok \in BOOLEAN : Truncated("m1", ok)
  \/ \E ok \in BOOLEAN : RmExited("m1", ok)
  \/ Pasted

SpecMounted == InitMounted /\ [][NextMounted]_vars

\* ----------------------------------------------------------------- claims
Last(seq) == seq[Len(seq)]
Docs(p) == 1..Len(filenames[p])
RowExists(d, f) == \E r \in d.receipts : r.filename = f
RowOf(d, f) == CHOOSE r \in d.receipts : r.filename = f
ItemsOf(d, id) == {it \in d.receipt_items : it.receipt_id = id}
PipelineRow(r) == r.processing_status \in {Some("complete"), Some("needs_review")}

\* the response carries parseable JSON with merchant, date and total
Complete(resp) ==
  /\ resp.kind = "json"
  /\ resp.data.merchant_name \notin {NULL, Some("")}
  /\ resp.data.receipt_date \notin {NULL, Some("")}
  /\ resp.data.total_amount # NULL

ConstraintErrors ==
  {"UNIQUE constraint failed: receipts.filename",
   "NOT NULL constraint failed: receipt_items.item_name",
   "NOT NULL constraint failed: receipt_items.total_price",
   "FOREIGN KEY constraint failed"}

\* this step is the call of processReceipt for document i of invocation p
Called(p, i) == docpc[p][i] = "notstarted" /\ docpc'[p][i] # "notstarted"
\* this step answers the LLM request of document i of invocation p
Answered(p, i) == docpc[p][i] = "extract" /\ docpc'[p][i] = "done"

\* C1: processReceipt(f) called while a receipt row exists for f returns at
\* once success=false, the existing row's id and "Receipt already processed",
\* issues no LLM request and changes no row of receipts or receipt_items.
C1_AlreadyProcessedIsNoop ==
  [][\A p \in Procs : \A i \in Docs(p) :
       (Called(p, i) /\ RowExists(db, filenames[p][i]))
       => /\ docpc'[p][i] = "done"
          /\ results'[p] = Append(results[p],
               ProcessingResult(FALSE, filenames[p][i],
                                Some(RowOf(db, filenames[p][i]).id),
                                "Receipt already processed", FALSE, NULL, NULL))
          /\ llmRequests' = llmRequests
          /\ response'[p][i] = NoResponse
          /\ db' = db]_vars

C1_Witness ==
  \E p \in Procs : \E i \in 1..Len(results[p]) :
    /\ i >= 2
    /\ results[p][i - 1].success
    /\ results[p][i - 1].filename = results[p][i].filename
    /\ results[p][i].message = "Receipt already processed"
    /\ results[p][i].receiptId = results[p][i - 1].receiptId

\* C2: a receipt header written by processReceipt is visible only together
\* with all line items of its extraction; a failed header or item insert
\* leaves neither a header nor items (no items without their header, no
\* pipeline header without a successful outcome that carries its items).
StripId(row) ==
  [receipt_id |-> row.receipt_id, item_name |-> row.item_name,
   quantity |-> row.quantity, unit_price |-> row.unit_price,
   total_price |-> row.total_price, category |-> row.category]

C2_AtomicPersist ==
  /\ \A it \in db.receipt_items : \E r \in db.receipts : r.id = it.receipt_id
  /\ \A r \in db.receipts :
       PipelineRow(r) =>
         \E p \in Procs : \E i \in 1..Len(results[p]) :
           LET res == results[p][i]
           IN  /\ res.success
               /\ res.receiptId = Some(r.id)
               /\ res.filename = r.filename
               /\ Cardinality(ItemsOf(db, r.id)) = Len(Val(res.extractedData).items)
               /\ {StripId(it) : it \in ItemsOf(db, r.id)} =
                    {StripId(ItemRow(db, r.id, Val(res.extractedData).items[k])) :
                       k \in 1..Len(Val(res.extractedData).items)}

C2_Witness ==
  /\ \E p \in Procs : \E i \in 1..Len(results[p]) :
       results[p][i].message = "NOT NULL constraint failed: receipt_items.item_name"
  /\ \E r \in db.receipts : PipelineRow(r) /\ ItemsOf(db, r.id) # {}

\* C3: the receipts table never holds two rows of one filename, whatever the
\* interleaving of processReceipt and insertReceipt calls; an insertReceipt
\* for a filename already present throws and leaves the database unchanged.
C3_UniqueFilename ==
  [][/\ \A r1 \in db'.receipts : \A r2 \in db'.receipts :
          r1.filename = r2.filename => r1 = r2
     /\ (lastInsert'.n # lastInsert.n /\ RowExists(db, lastInsert'.filename))
          => (lastInsert'.threw /\ db' = db)]_vars

C3_Witness ==
  /\ lastInsert.threw
  /\ lastInsert.n = 2
  /\ \E r \in db.receipts : r.filename = lastInsert.filename /\ ~ PipelineRow(r)
  /\ \E r \in db.receipts : PipelineRow(r)

\* C4: when the extraction of processReceipt fails (transport error, empty or
\* unparseable answer, missing merchant, date or total) the call writes no
\* row and returns success=false with the extraction's failure message.
C4_ExtractionFailurePersistsNothing ==
  [][\A p \in Procs : \A i \in Docs(p) :
       (Answered(p, i) /\ ~ Complete(response'[p][i]))
       => /\ db' = db
          /\ status'[p] # "rejected"
          /\ results'[p] = Append(results[p],
               ProcessingResult(FALSE, filenames[p][i], NULL,
                                Last(results'[p]).message, FALSE, NULL, NULL))
          /\ SubSeq(Last(results'[p]).message, 1, Len(VisionPrefix)) = VisionPrefix
          /\ Len(Last(results'[p]).message) > Len(VisionPrefix)]_vars

C4_Witness ==
  \E p \in Procs : \E i \in 1..Len(results[p]) :
    /\ response[p][i].kind = "malformed"
    /\ ~ results[p][i].success
    /\ ~ RowExists(db, results[p][i].filename)

Raced(p, i) ==
  Answered(p, i) /\ Complete(response'[p][i]) /\ RowExists(db, filenames[p][i])

\* C6 as stated: the raced invocation is reported as the "already processed"
\* outcome (the message of the idempotency check and the existing id).
C6_Original ==
  [][\A p \in Procs : \A i \in Docs(p) :
       Raced(p, i) =>
         /\ status'[p] # "rejected"
         /\ Last(results'[p]) = AlreadyProcessed(filenames[p][i],
                                                 Some(RowOf(db, filenames[p][i])))]_vars

\* C6 (amended): the raced invocation does not crash; it is reported as a
\* failed outcome, success=false, whose message is the constraint violation
\* "UNIQUE constraint failed: receipts.filename" and which carries no
\* receiptId, and the winner's rows are left as they are.
C6_RaceIsNonFatalFailure ==
  [][\A p \in Procs : \A i \in Docs(p) :
       Raced(p, i) =>
         /\ status'[p] # "rejected"
         /\ results'[p] = Append(results[p],
              ProcessingResult(FALSE, filenames[p][i], NULL,
                               "UNIQUE constraint failed: receipts.filename",
                               FALSE, NULL, NULL))
         /\ db' = db]_vars

C6_Witness ==
  \E i \in 1..Len(results["batch"]) : \E j \in 1..Len(results["single"]) :
    /\ results["batch"][i].filename = results["single"][j].filename
    /\ response["batch"][i] # NoResponse
    /\ response["single"][j] # NoResponse
    /\ \/ /\ results["batch"][i].success
          /\ results["single"][j].message = "UNIQUE constraint failed: receipts.filename"
       \/ /\ results["single"][j].success
          /\ results["batch"][i].message = "UNIQUE constraint failed: receipts.filename"

\* document i of the batch failed otherwise than by the idempotency check
FailedAttempt(i) ==
  /\ docpc["batch"][i] = "done"
  /\ ~ results["batch"][i].success
  /\ results["batch"][i].message # "Receipt already processed"

\* no document after the j-th of the batch has been started
NoLaterAttempt(j) ==
  \A k \in Docs("batch") : k > j => docpc["batch"][k] = "notstarted"

StepOf(p) ==
  \E i \in 1..MaxBatch :
    \/ processReceipt(p, i)
    \/ LoadPDF(p, i)
    \/ ConvertPDF(p, i)
    \/ \E resp \in LLMResponses : Extracted(p, i, resp)

\* C8: processMultipleReceipts returns one outcome per input filename, in
\* input order; no failure of a document rejects the batch or keeps the
\* documents after it from being processed.
C8_OneOutcomePerDocument ==
  \A p \in Procs :
    /\ status[p] # "rejected"
    /\ Len(results[p]) <= Len(filenames[p])
    /\ \A i \in 1..Len(results[p]) : results[p][i].filename = filenames[p][i]
    /\ status[p] = "returned" => Len(results[p]) = Len(filenames[p])
    /\ status[p] = "running" => ENABLED StepOf(p)

C8_Witness ==
  /\ status["batch"] = "returned"
  /\ Len(results["batch"]) = 2
  /\ filenames["batch"] = <<"b.pdf", "a.pdf">>
  /\ ~ results["batch"][1].success
  /\ results["batch"][2].success

\* C9: within a batch the processing of document i+1 (its idempotency check,
\* file check and extraction) never starts before document i has its outcome.
C9_StrictlySequential ==
  \A p \in Procs : \A i \in Docs(p) : \A j \in Docs(p) :
    (j < i /\ docpc[p][i] # "notstarted")
    => /\ docpc[p][j] = "done"
       /\ Len(results[p]) >= j
       /\ results[p][j].filename = filenames[p][j]

C9_Witness ==
  /\ Len(filenames["batch"]) = 2
  /\ docpc["batch"][2] = "extract"
  /\ docpc["batch"][1] = "done"
  /\ response["batch"][1] # NoResponse

\* C10: a successful moveFileToReceipts(source) of an existing regular file
\* whose base filename was not in the store ends with the source gone, the
\* store holding basename(source) with the source's original bytes, and the
\* returned name equal to basename(source).
C10_MoveIn ==
  \A m \in Movers :
    mv[m].pc = "returned" =>
      /\ mv[m].ret = Some(basename(mv[m].sourcePath))
      /\ fs[join(RECEIPTS_DIR, Val(mv[m].ret))] = File(Val(mv[m].original))
      /\ fs[mv[m].sourcePath] = Absent

\* ------------------------------------------------------ claims: the store
\* the destination of caller m's move
Dest(m) == join(RECEIPTS_DIR, basename(mv[m].sourcePath))
\* caller m is in, or has ended, a moveFileToReceipts call
InMove(m) ==
  mv[m].pc \in {"sourceExists", "destExists", "copy", "truncate", "rm",
                "returned", "threw"}
MoveEnded(m) == mv[m].pc \in {"returned", "threw"}

\* C11: moveFileToReceipts(source) of an existing file whose base filename is
\* already a file of the store throws "File already exists in receipts:
\* <filename>" and changes neither the source nor the stored file.
C11_ConflictLeavesBothUntouched ==
  \A m \in Movers :
    (/\ InMove(m)
     /\ mv[m].before[mv[m].sourcePath].type = "file"
     /\ mv[m].before[Dest(m)].type = "file")
    => /\ fs = mv[m].before
       /\ mv[m].pc \in {"sourceExists", "destExists", "threw"}
       /\ mv[m].pc = "threw" =>
            mv[m].error = "File already exists in receipts: "
                           \o basename(mv[m].sourcePath)

C11_Witness ==
  \E m \in Movers :
    /\ mv[m].pc = "threw"
    /\ mv[m].error = "File already exists in receipts: a.pdf"
    /\ mv[m].sourcePath = <<"inbox", "a.pdf">>
    /\ fs[mv[m].sourcePath] = File("bytes of /inbox/a.pdf")
    /\ fs[Dest(m)] = File("bytes of /tmp/a.pdf")

\* C12: moveFileToReceipts(source) for a path at which nothing exists throws
\* "Source file does not exist: <path>" and changes no file.
C12_MissingSourceIsNotFound ==
  \A m \in Movers :
    (InMove(m) /\ mv[m].before[mv[m].sourcePath].type = "absent")
    => /\ fs = mv[m].before
       /\ mv[m].pc \in {"sourceExists", "threw"}
       /\ mv[m].pc = "threw" =>
            mv[m].error = "Source file does not exist: " \o PathStr(mv[m].sourcePath)

C12_Witness ==
  \E m \in Movers :
    /\ mv[m].pc = "threw"
    /\ mv[m].sourcePath = <<"tmp", "a.pdf">>
    /\ mv[m].error = "Source file does not exist: /tmp/a.pdf"
    /\ fs[<<"tmp", "a.pdf">>] = Absent
    /\ fs[join(RECEIPTS_DIR, "a.pdf")] = File("bytes of /tmp/a.pdf")

\* C13: in sequential use of ensureReceiptsDir and moveFileToReceipts no step
\* replaces or alters the content of a file that is in the store, the file
\* named like the marker included.
C13_NeverOverwrites ==
  [][\A path \in StorePaths :
       fs[path].type = "file" => fs'[path] = fs[path]]_vars

\* C14: when two moveFileToReceipts calls for one base filename overlap, a
\* call that passed the destination check before the other one's copy still
\* copies: its copy replaces the content the other call stored, and no error
\* is raised.
C14_ConcurrentMoveOverwrites ==
  [][\A m \in Movers :
       (/\ mv[m].pc = "copy"
        /\ mv'[m].pc = "truncate"
        /\ fs[Dest(m)].type = "file")
       => /\ fs'[Dest(m)] = File(fs[mv[m].sourcePath].content)
          /\ mv'[m].error = ""]_vars

\* both calls returned a filename; the store holds the bytes of one source
\* and the bytes of the other source are nowhere
C14_Witness ==
  \E m \in Movers : \E o \in Movers :
    /\ m # o
    /\ mv[m].pc = "returned"
    /\ mv[o].pc = "returned"
    /\ mv[m].sourcePath # mv[o].sourcePath
    /\ mv[m].before[Dest(m)] = Absent
    /\ mv[o].before[Dest(o)] = Absent
    /\ fs[Dest(o)] = File(Val(mv[o].original))
    /\ \A path \in Paths : fs[path] # File(Val(mv[m].original))

\* caller m's move has copied and has not removed the source: it awaits the
\* clearing or the rm (where a crash would leave it), the clearing failed, or
\* it returned although rm could not remove the source
CopiedNotRemoved(m) ==
  \/ mv[m].pc \in {"truncate", "rm"}
  \/ mv[m].pc = "threw" /\ mv[m].error = "Failed to move file: EACCES: permission denied"
  \/ mv[m].pc = "returned" /\ fs[mv[m].sourcePath] # Absent

\* C15 as stated: copied but not removed, the same content is at the source
\* and at the destination.
C15_Original ==
  \A m \in Movers :
    CopiedNotRemoved(m)
    => /\ fs[Dest(m)] = File(Val(mv[m].original))
       /\ fs[mv[m].sourcePath] = File(Val(mv[m].original))

\* C15 (amended): copied but not removed, the destination has the content and
\* the source is still a file: with the same content as long as it was not
\* cleared (a crash before the clearing, a failed clearing), and empty once it
\* was cleared (a crash before rm, a failed rm).
C15_CopyThenRemoveNotAtomic ==
  \A m \in Movers :
    CopiedNotRemoved(m)
    => /\ fs[Dest(m)] = File(Val(mv[m].original))
       /\ fs[mv[m].sourcePath] =
            (IF mv[m].pc \in {"truncate", "threw"}
             THEN File(Val(mv[m].original)) ELSE File(""))

C15_Witness ==
  \E m \in Movers :
    /\ mv[m].pc = "returned"
    /\ mv[m].sourcePath = <<"tmp", "a.pdf">>
    /\ fs[mv[m].sourcePath] = File("")
    /\ fs[Dest(m)] = File("bytes of /tmp/a.pdf")

\* C16: moveFileToReceipts(source) for a source that is a directory throws
\* "Source is not a file: <path>" and changes no file.
C16_DirectoryIsNotAFile ==
  \A m \in Movers :
    (InMove(m) /\ mv[m].before[mv[m].sourcePath].type = "dir")
    => /\ fs = mv[m].before
       /\ MoveEnded(m) =>
            /\ mv[m].pc = "threw"
            /\ mv[m].error = "Source is not a file: " \o PathStr(mv[m].sourcePath)

C18_PersistedAsExtracted ==
  [][\A p \in Procs : \A i \in Docs(p) :
       (Answered(p, i) /\ Last(results'[p]).success)
       => LET res == Last(results'[p])
              data == Val(res.extractedData)
              rows == {r \in db'.receipts : r.filename = filenames[p][i]}
          IN  /\ Cardinality(rows) = 1
              /\ \A r \in rows :
                   /\ res.receiptId = Some(r.id)
                   /\ r.merchant_name = data.merchant_name
                   /\ r.receipt_date = data.receipt_date
                   /\ r.total_amount = data.total_amount
                   /\ r.currency = data.currency
                   /\ Cardinality(ItemsOf(db', r.id)) = Len(data.items)
                   /\ \A it \in db'.receipt_items \ db.receipt_items :
                        it.receipt_id = r.id]_vars

\* this step is a direct call of the db function op
DirectCall(op) == lastInsert'.n # lastInsert.n /\ lastInsert'.op = op
NoReceipt(d, id) == ~ \E r \in d.receipts : r.id = id

\* C19 as stated: every receipt_items row references an existing receipts
\* row; deleteReceipt(id) removes the items of that receipt; and
\* insertReceiptItems with the id of no receipt fails and inserts nothing.
C19_Original ==
  [][/\ \A it \in db'.receipt_items : ~ NoReceipt(db', it.receipt_id)
     /\ DirectCall("deleteReceipt") =>
          /\ NoReceipt(db', lastInsert'.id)
          /\ ItemsOf(db', lastInsert'.id) = {}
     /\ (DirectCall("insertReceiptItems") /\ NoReceipt(db, lastInsert'.id)) =>
          /\ lastInsert'.threw
          /\ db' = db]_vars

\* C19 (amended): as stated, with insertReceiptItems failing for the id of no
\* receipt when it is given at least one item; with an empty list it returns
\* normally, and inserts nothing either.
C19_ReferentialIntegrity ==
  [][/\ \A it \in db'.receipt_items : ~ NoReceipt(db', it.receipt_id)
     /\ DirectCall("deleteReceipt") =>
          /\ NoReceipt(db', lastInsert'.id)
          /\ ItemsOf(db', lastInsert'.id) = {}
          /\ db'.receipt_items = {it \in db.receipt_items :
                                    it.receipt_id # lastInsert'.id}
     /\ (DirectCall("insertReceiptItems") /\ NoReceipt(db, lastInsert'.id)) =>
          /\ db' = db
          /\ lastInsert'.threw <=> lastInsert'.count > 0
          /\ lastInsert'.threw =>
               lastInsert'.error \in ConstraintErrors]_vars

\* the one direct call so far deleted a receipt the pipeline had stored with
\* its item, and the item went with it
C19_Witness ==
  /\ lastInsert.n = 1
  /\ lastInsert.op = "deleteReceipt"
  /\ Len(results["single"]) = 1
  /\ results["single"][1].success
  /\ results["single"][1].receiptId = Some(lastInsert.id)
  /\ db.seq_items > 0
  /\ db.receipts = {}
  /\ db.receipt_items = {}

\* C20 as stated: every step that creates receipt_items rows creates their
\* receipts row too (the same transaction).
C20_Original ==
  [][\A it \in db'.receipt_items \ db.receipt_items :
       /\ NoReceipt(db, it.receipt_id)
       /\ ~ NoReceipt(db', it.receipt_id)]_vars

\* C20 (amended): the pipeline creates receipt_items rows only in the
\* transaction that creates their receipts row; a direct insertReceiptItems
\* call adds rows to a receipt that exists already; no step creates a row
\* whose receipt_id is not the id of a receipt.
C20_ItemsHaveAParent ==
  [][\A it \in db'.receipt_items \ db.receipt_items :
       /\ ~ NoReceipt(db', it.receipt_id)
       /\ IF DirectCall("insertReceiptItems")
          THEN /\ it.receipt_id = lastInsert'.id
               /\ ~ NoReceipt(db, it.receipt_id)
               /\ db'.receipts = db.receipts
          ELSE /\ Answered("single", 1)
               /\ NoReceipt(db, it.receipt_id)
               /\ Last(results'["single"]).receiptId = Some(it.receipt_id)]_vars

\* an item was added by a direct call to a receipt inserted by a direct call
C20_Witness ==
  /\ lastInsert.op = "insertReceiptItems"
  /\ ~ lastInsert.threw
  /\ lastInsert.count = 2
  /\ \E r \in db.receipts :
       /\ r.id = lastInsert.id
       /\ ~ PipelineRow(r)
       /\ Cardinality(ItemsOf(db, r.id)) = 2

\* ------------------------------------------- validateReceiptData by itself
\* totals, item prices (in cents) and dates given to validateReceiptData
Totals == {0, 30, 60, 1000, 2000, 2020}
PriceLists ==
  { <<>>, <<110>>, <<1050>>, <<1051>>, <<950>>, <<949>>, <<1000>>, <<2100>>,
    <<2101>>, <<2121>>, <<500, 550>>, <<10, 20>> }
Dates ==
  { "2024-01-12", "2024-13-40", "12/01/2024", "2024-1-12", "20240112",
    "", "abcd-ef-gh", "2024-01-123", "2024_01_12" }
RECURSIVE Items(_)
Items(prices) ==
  IF prices = <<>> THEN <<>>
  ELSE <<Item(Some("Coffee"), Some(1), Some(Head(prices)))>> \o Items(Tail(prices))

\* validateReceiptData(data) is called
CallValidateReceiptData(data) ==
  /\ fn.pc = "idle"
  /\ fn' = [name |-> "validateReceiptData", pc |-> "called", arg |-> data]
  /\ UNCHANGED appVars

\* the call returns
ValidateReceiptData ==
  /\ fn.name = "validateReceiptData" /\ fn.pc = "called"
  /\ fn' = [name |-> fn.name, pc |-> "returned", arg |-> fn.arg,
            ret |-> validateReceiptData(fn.arg)]
  /\ UNCHANGED appVars

NextValidate ==
  \/ \E total \in Totals, prices \in PriceLists, date \in Dates :
       CallValidateReceiptData(
         Data(Some("Cafe X"), Some(date), Some(total), Items(prices)))
  \/ ValidateReceiptData

SpecValidate == Init /\ [][NextValidate]_vars

\* validateReceiptData has returned
Validated == fn.name = "validateReceiptData" /\ fn.pc = "returned"
\* how many entries of the issues list carry this message
CountIssues(issues, msg) ==
  Cardinality({i \in DOMAIN issues : issues[i][1] = msg})

\* C22: validateReceiptData records exactly one sum-mismatch issue when
\* |sum of item total_price - total_amount| is strictly greater than
\* max(5% of total_amount, 0.50), and none otherwise: a difference equal to
\* the tolerance is accepted.  (Amounts in cents, scaled by 100.)
C22_SumToleranceIsStrict ==
  Validated =>
    CountIssues(fn.ret.issues, SumIssue(0, 0)[1]) =
      IF 100 * Abs(SumTotalPrice(fn.arg.items) - Val(fn.arg.total_amount))
           > Max(5 * Val(fn.arg.total_amount), 5000)
      THEN 1 ELSE 0

\* the three checks as the run decides them
SumCheckFails(data) == SumMismatch_Double(data.items, Val(data.total_amount))
ItemsCheckFails(data) == Len(data.items) = 0
DateCheckFails(data) == ~ DatePatternTest(Val(data.receipt_date))
Indicator(b) == IF b THEN 1 ELSE 0

\* C23: the issues list holds exactly one entry for each failing check among
\* sum mismatch, zero line items and date pattern, and nothing else; zero line
\* items adds the items-missing issue whatever the other checks yield; valid
\* is true exactly when the issues list is empty.
C23_ChecksAreIndependent ==
  Validated =>
    /\ CountIssues(fn.ret.issues, SumIssue(0, 0)[1]) = Indicator(SumCheckFails(fn.arg))
    /\ CountIssues(fn.ret.issues, ItemsIssue[1]) = Indicator(ItemsCheckFails(fn.arg))
    /\ CountIssues(fn.ret.issues, DateIssue[1]) = Indicator(DateCheckFails(fn.arg))
    /\ Len(fn.ret.issues) = Indicator(SumCheckFails(fn.arg))
                            + Indicator(ItemsCheckFails(fn.arg))
                            + Indicator(DateCheckFails(fn.arg))
    /\ fn.ret.valid <=> fn.ret.issues = <<>>

\* all three checks fail on one input and all three issues are reported
C23_Witness ==
  /\ Validated
  /\ SumCheckFails(fn.arg) /\ ItemsCheckFails(fn.arg) /\ DateCheckFails(fn.arg)
  /\ Len(fn.ret.issues) = 3
  /\ ~ fn.ret.valid

\* four digits, a hyphen, two digits, a hyphen, two digits
IsoShape(s) ==
  /\ Len(s) = 10
  /\ \A i \in 1..10 :
       IF i \in {5, 8} THEN SubSeq(s, i, i) = "-" ELSE IsDigit(SubSeq(s, i, i))

\* C24: the date check is syntactic: a date records an issue exactly when it
\* is not four digits, a hyphen, two digits, a hyphen, two digits; a string of
\* that shape that is no calendar date, such as "2024-13-40", records none.
C24_DateCheckIsSyntactic ==
  Validated =>
    /\ CountIssues(fn.ret.issues, DateIssue[1]) =
         Indicator(~ IsoShape(Val(fn.arg.receipt_date)))
    /\ fn.arg.receipt_date = Some("2024-13-40") =>
         CountIssues(fn.ret.issues, DateIssue[1]) = 0

\* "2024-13-40" was validated without a date issue
C24_Witness ==
  /\ Validated
  /\ fn.arg.receipt_date = Some("2024-13-40")
  /\ CountIssues(fn.ret.issues, DateIssue[1]) = 0

\* ---------------------------------------- the extraction variants by themselves
Variants == {"extractReceiptData", "extractReceiptDataWithVision"}
\* what the request of an attempt may be answered with: no answer, no content,
\* content that is not JSON, or JSON with or without each of the fields
ExtractResponses ==
  { [kind |-> k, data |-> DataIncomplete] : k \in {"error", "empty", "malformed"} }
  \cup { [kind |-> "json", data |-> Data(merchant, date, total, items)] :
           merchant \in {NULL, Some(""), Some("Cafe X")},
           date \in {NULL, Some(""), Some("2024-01-12")},
           total \in {NULL, Some(0), Some(40), Some(1000)},
           items \in {<<>>, <<Item(Some("Coffee"), Some(1), Some(1000))>>} }

\* the attempt after the answer to its request, with one more request on a failure
ExtractAnswered_Retry(f, resp) ==
  LET r == IF f.name = "extractReceiptData" THEN extractReceiptData(resp)
           ELSE extractReceiptDataWithVision(resp)
  IN  IF r.threw /\ f.requests < 2
      THEN [f EXCEPT !.requests = @ + 1]
      ELSE [name |-> f.name, pc |-> "returned", requests |-> f.requests,
            resp |-> resp, ret |-> r]

\* the attempt after the answer to its request: it returns or throws
ExtractAnswered(f, resp) ==
  LET r == IF f.name = "extractReceiptData" THEN extractReceiptData(resp)
           ELSE extractReceiptDataWithVision(resp)
  IN  [name |-> f.name, pc |-> "returned", requests |-> f.requests,
       resp |-> resp, ret |-> r]

\* a variant is called and awaits openai.chat.completions.create(...)
CallExtract(variant) ==
  /\ fn.pc = "idle"
  /\ fn' = [name |-> variant, pc |-> "awaiting", requests |-> 1]
  /\ UNCHANGED appVars

\* the request is answered
AnswerExtract(resp) ==
  /\ fn.name \in Variants /\ fn.pc = "awaiting"
  /\ fn' = ExtractAnswered(fn, resp)
  /\ UNCHANGED appVars

NextExtract ==
  \/ \E variant \in Variants : CallExtract(variant)
  \/ \E resp \in ExtractResponses : AnswerExtract(resp)

SpecExtract == Init /\ [][NextExtract]_vars

\* the attempt has ended
ExtractEnded == fn.name \in Variants /\ fn.pc = "returned"
\* the parsed response lacks merchant, date or total (absent, null or empty)
Lacks(data) ==
  \/ data.merchant_name \in {NULL, Some("")}
  \/ data.receipt_date \in {NULL, Some("")}
  \/ data.total_amount = NULL
IncompleteError(variant) ==
  IF variant = "extractReceiptData"
  THEN TextPrefix \o "Incomplete receipt data extracted"
  ELSE VisionPrefix \o "Incomplete receipt data extracted from vision"

\* C25: both variants fail with the incomplete-extraction error exactly when
\* the parsed response lacks merchant, date or total, and otherwise return the
\* parsed result; a total of 0 counts as present.
C25_IncompleteExactlyWhenLacking ==
  (ExtractEnded /\ fn.resp.kind = "json") =>
    /\ fn.ret.threw <=> Lacks(fn.resp.data)
    /\ fn.ret.threw => fn.ret.error = IncompleteError(fn.name)
    /\ ~ fn.ret.threw => fn.ret.value = fn.resp.data
    /\ (/\ fn.resp.data.total_amount = Some(0)
        /\ fn.resp.data.merchant_name = Some("Cafe X")
        /\ fn.resp.data.receipt_date = Some("2024-01-12")) => ~ fn.ret.threw

\* the text variant returned a parsed result whose total is 0
C25_Witness ==
  /\ ExtractEnded
  /\ fn.name = "extractReceiptData"
  /\ fn.resp.kind = "json"
  /\ fn.resp.data.total_amount = Some(0)
  /\ ~ fn.ret.threw
  /\ fn.ret.value = fn.resp.data

HasPrefix(str, prefix) ==
  Len(str) >= Len(prefix) /\ SubSeq(str, 1, Len(prefix)) = prefix
PathPrefix(variant) ==
  IF variant = "extractReceiptData" THEN TextPrefix ELSE VisionPrefix

\* C26: an extraction attempt issues exactly one LLM request and never a
\* second one; a transport error, an empty response, malformed JSON or a
\* missing field ends it with one error, wrapped in the message of its own
\* path (text or vision) and not in that of the other.
C26_OneRequestOneWrappedError ==
  fn.name \in Variants =>
    /\ fn.requests = 1
    /\ (/\ fn.pc = "returned"
        /\ \/ fn.resp.kind \in {"error", "empty", "malformed"}
           \/ Lacks(fn.resp.data)) =>
          /\ fn.ret.threw
          /\ HasPrefix(fn.ret.error, PathPrefix(fn.name))
          /\ \A other \in Variants \ {fn.name} :
               ~ HasPrefix(fn.ret.error, PathPrefix(other))

\* a vision attempt whose request met a transport error has ended, with
\* one request made and the error wrapped
C26_Witness ==
  /\ ExtractEnded
  /\ fn.name = "extractReceiptDataWithVision"
  /\ fn.resp.kind = "error"
  /\ fn.requests = 1
  /\ fn.ret.threw
  /\ HasPrefix(fn.ret.error, VisionPrefix)

\* ------------------------------------------------------ vision fallback flag
\* document i of invocation p has had its extraction requested
ExtractionRequested(p, i) == docpc[p][i] = "extract" \/ response[p][i] # NoResponse

\* C27: the vision path of processReceipt is guarded by ENABLE_VISION_FALLBACK
\* (default enabled): with the flag enabled every extraction goes through the
\* vision path, and with the flag disabled the vision path is not taken.
C27_VisionGuardedByFlag ==
  /\ ENABLE_VISION_FALLBACK(NoEnv)
  /\ ENABLE_VISION_FALLBACK(env) =>
       \A p \in Procs : \A i \in Docs(p) : ExtractionRequested(p, i) => llmRequests > 0
  /\ ~ ENABLE_VISION_FALLBACK(env) =>
       /\ llmRequests = 0
       /\ \A p \in Procs : \A i \in 1..Len(results[p]) : ~ results[p][i].usedVision

\* ------------------------------------------------ fileParser by itself
\* the files and directories a pasted path may name
ParsePaths ==
  { <<"tmp", "a.pdf">>, <<"tmp", "b.pdf">>, <<"tmp", "my receipt.pdf">>,
    <<"tmp", "scans">>, <<"a.pdf">> }
\* lines a paste may hold
ParseLines ==
  { "/tmp/a.pdf", "/tmp/b.pdf", "/tmp/my receipt.pdf", "/tmp/scans", "a.pdf",
    "\"/tmp/my receipt.pdf\"", "'/tmp/my receipt.pdf'", "\"/tmp/a.pdf'",
    "\"/tmp/my\\ receipt.pdf\"", "\"\"/tmp/a.pdf\"\"", "\"", "''",
    "/tmp/my\\ receipt.pdf", "/tmp/a.pdf /tmp/b.pdf", "  /tmp/a.pdf\t",
    "file:///tmp/a.pdf", "file:///tmp/my%20receipt.pdf",
    "file:///tmp/my receipt.pdf", "file:///tmp/scans/../a.pdf",
    "file://tmp/a.pdf", "file:///tmp/a%zz.pdf", "file://a b/tmp/a.pdf",
    "'file:///tmp/a.pdf'", "file:///tmp/my\\ receipt.pdf" }
\* pasted texts: one line, several lines, and nothing but white space
Texts ==
  ParseLines
  \cup { "", "   \n  \t  ", "\n/tmp/a.pdf\n",
         "/tmp/a.pdf\n/tmp/b.pdf\n/tmp/a.pdf",
         "/tmp/my receipt.pdf\n\n  \n/tmp/a.pdf",
         "/tmp/a.pdf\r\n\"/tmp/my receipt.pdf\"\r\n",
         "/tmp/scans\nfile:///tmp/a.pdf\ninvalid-path" }
\* texts given to looksLikeFilePath
LooksTexts ==
  Texts
  \cup { "./file.txt", "../parent/file.txt", " \t../x\n", "just some text",
         "filename.txt", "   ", "  /tmp/file.txt  ", ".", "..", ".../x", "x/y",
         "file:/tmp/a.pdf", "File:///tmp/a.pdf", "~/a.pdf", "/" }

\* parseFilePaths(pastedText) is called: it collects the candidate paths and
\* awaits the first existence check, or returns at once for a blank text
CallParseFilePaths(pastedText) ==
  /\ fn.pc = "idle"
  /\ fn' = [name |-> "parseFilePaths",
            pc |-> IF Len(trim(pastedText)) = 0 THEN "returned" ELSE "exists",
            arg |-> pastedText, paths |-> Candidates(pastedText), i |-> 1,
            existingPaths |-> <<>>]
  /\ UNCHANGED appVars

\* `await file.exists()` of the path in turn is answered; after the last
\* path the call returns existingPaths
ExistsAnswered ==
  /\ fn.name = "parseFilePaths" /\ fn.pc = "exists"
  /\ fn' = [fn EXCEPT
              !.existingPaths = IF Exists(fs, fn.paths[fn.i])
                                THEN Append(@, fn.paths[fn.i]) ELSE @,
              !.i = @ + 1,
              !.pc = IF fn.i = Len(fn.paths) THEN "returned" ELSE "exists"]
  /\ UNCHANGED appVars

\* looksLikeFilePath(text) is called and returns
LooksLikeFilePath(text) ==
  /\ fn.pc = "idle"
  /\ fn' = [name |-> "looksLikeFilePath", pc |-> "returned", arg |-> text,
            ret |-> looksLikeFilePath(text)]
  /\ UNCHANGED appVars

InitParse ==
  /\ InitState
  /\ env = NoEnv
  /\ \E a \in {Absent, File("%PDF a.pdf")} :
       fs = [path \in ParsePaths |->
               IF path = <<"tmp", "a.pdf">> THEN a
               ELSE IF path = <<"tmp", "my receipt.pdf">> THEN File("%PDF my receipt.pdf")
               ELSE IF path = <<"tmp", "scans">> THEN Dir
               ELSE Absent]

NextParse ==
  \/ \E pastedText \in Texts : CallParseFilePaths(pastedText)
  \/ ExistsAnswered
  \/ \E text \in LooksTexts : LooksLikeFilePath(text)

SpecParse == InitParse /\ [][NextParse]_vars

\* parseFilePaths has returned
Parsed == fn.name = "parseFilePaths" /\ fn.pc = "returned"
\* the path names something on the filesystem, of whatever kind
OnFilesystem(path) == \E p \in DOMAIN fs : PathStr(p) = path /\ fs[p].type # "absent"
\* the path names a regular file
RegularFile(path) == \E p \in DOMAIN fs : PathStr(p) = path /\ fs[p].type = "file"
\* the line holds a character that is no white space
NotBlank(line) == \E i \in 1..Len(line) : Char(line, i) \notin WhiteSpace
Blank(text) == ~ NotBlank(text)

\* C28 as stated: parseFilePaths returns exactly the candidates (one per
\* non-empty line) that exist on the filesystem, in input order and with
\* duplicates kept; a blank text yields the empty list, never an error.
C28_Original ==
  Parsed =>
    /\ Len(fn.paths) = Len(SelectSeq(split(fn.arg, "\n"), NotBlank))
    /\ fn.existingPaths = SelectSeq(fn.paths, OnFilesystem)
    /\ Blank(fn.arg) => fn.existingPaths = <<>>

\* C28 amended: parseFilePaths returns exactly the candidates (one per
\* non-blank line) that name an existing regular file, in input order and
\* with duplicates kept; candidates that name nothing or name a directory are
\* dropped silently; a blank text yields the empty list, never an error.
C28_ReturnsExistingFiles ==
  Parsed =>
    /\ Len(fn.paths) = Len(SelectSeq(split(fn.arg, "\n"), NotBlank))
    /\ fn.existingPaths = SelectSeq(fn.paths, RegularFile)
    /\ Blank(fn.arg) => fn.existingPaths = <<>>

\* a paste of an existing file, a missing file and the first file again
\* returned the existing file twice
C28_Witness ==
  /\ Parsed
  /\ fn.arg = "/tmp/a.pdf\n/tmp/b.pdf\n/tmp/a.pdf"
  /\ fn.existingPaths = <<"/tmp/a.pdf", "/tmp/a.pdf">>

\* the line is wrapped in one matching pair of double or single quotes
WrappedInPair(line) ==
  /\ Len(line) >= 2
  /\ Char(line, 1) \in {"\"", "'"}
  /\ Char(line, Len(line)) = Char(line, 1)

\* the candidate of a line by the first applicable rule
RuleCandidate(line) ==
  IF startsWith(line, "file://") /\ ~ FileURLPath(line).threw
  THEN FileURLPath(line).value
  ELSE IF WrappedInPair(line) THEN SubSeq(line, 2, Len(line) - 1)
  ELSE IF includes(line, "\\ ") THEN unescapeSpaces(line)
  ELSE line

\* C29: for each line parseFilePaths produces exactly one candidate by the
\* first applicable rule: a file:// URL is parsed and its path decoded (on a
\* failure the next rules apply); else a line wrapped in one matching pair of
\* quotes loses that pair; else every escaped space becomes a space; else
\* the line is taken unchanged, never split on spaces.
C29_FirstApplicableRule ==
  fn.name = "parseFilePaths" =>
    LET lines == SelectSeq(split(fn.arg, "\n"), NotBlank)
    IN  /\ Len(fn.paths) = Len(lines)
        /\ \A i \in 1..Len(lines) : fn.paths[i] = RuleCandidate(trim(lines[i]))

\* the text without the white space around it
Strip(text) ==
  IF Blank(text) THEN ""
  ELSE SubSeq(text,
              CHOOSE i \in 1..Len(text) :
                NotBlank(Char(text, i)) /\ \A j \in 1..(i - 1) : Blank(Char(text, j)),
              CHOOSE i \in 1..Len(text) :
                NotBlank(Char(text, i)) /\ \A j \in (i + 1)..Len(text) : Blank(Char(text, j)))

\* C30: looksLikeFilePath(text) is true exactly when text without the white
\* space around it starts with "/", "./", "../" or "file://", whatever the
\* files present; blank text is no path.
C30_LooksLikeFilePath ==
  (fn.name = "looksLikeFilePath" /\ fn.pc = "returned") =>
    /\ fn.ret <=> \E prefix \in {"/", "./", "../", "file://"} :
                    startsWith(Strip(fn.arg), prefix)
    /\ Blank(fn.arg) => ~ fn.ret

\* a relative path inside white space was recognised, with no file of
\* that name anywhere
C30_Witness ==
  /\ fn.name = "looksLikeFilePath" /\ fn.pc = "returned"
  /\ fn.arg = " \t../x\n"
  /\ fn.ret
  /\ \A p \in DOMAIN fs : PathStr(p) # Strip(fn.arg)

\* --------------------------------------------------------------- status
\* the row of receipt id changes its processing_status in this step
StatusChanged(id) ==
  \E r \in db.receipts : \E r2 \in db'.receipts :
    r.id = id /\ r2.id = id /\ r2.processing_status # r.processing_status
\* the rows this step adds to receipts
NewRows == {r2 \in db'.receipts : \A r \in db.receipts : r.id # r2.id}
\* this step belongs to a processReceipt call
PipelineStep == \E p \in Procs : docpc'[p] # docpc[p]
\* the receipts a processReceipt call has created
CreatedByPipeline ==
  {r \in db.receipts : \E p \in Procs : \E i \in 1..Len(results[p]) :
     results[p][i].success /\ results[p][i].receiptId = Some(r.id)}

\* C21 as stated: no step changes the processing_status of a stored receipt,
\* and every stored receipt created by the pipeline has status complete or
\* needs_review.
C21_Original ==
  [][/\ \A id \in ReceiptIds : ~ StatusChanged(id)
     /\ \A r \in CreatedByPipeline' : PipelineRow(r)]_vars

\* C21 amended: the pipeline sets processing_status at creation only, to
\* complete or needs_review, and no step of it changes the status of a stored
\* receipt; the status of receipt id changes only in a direct call
\* updateReceiptStatus(id, status), which nothing in the application makes.
C21_StatusSetAtCreation ==
  [][/\ \A id \in ReceiptIds :
          StatusChanged(id) =>
            DirectCall("updateReceiptStatus") /\ lastInsert'.id = id
     /\ PipelineStep => \A r \in NewRows : PipelineRow(r)
     /\ ~ DirectCall("updateReceiptStatus") =>
          \A r \in CreatedByPipeline' :
            r \in CreatedByPipeline \/ PipelineRow(r)]_vars

\* a receipt the pipeline created has status "error" after a direct call of
\* updateReceiptStatus, next to a second receipt whose status is untouched
C21_Witness ==
  /\ lastInsert.op = "updateReceiptStatus"
  /\ \E r \in CreatedByPipeline :
       r.id = lastInsert.id /\ r.processing_status = Some("error")
  /\ \E r \in db.receipts : r.id # lastInsert.id


\* ------------------------------------------------ claims: the pipeline, again
\* the path processReceipt computes for document i of invocation p
PdfPath(p, i) == join(getReceiptsDir, filenames[p][i])
\* the outcome of a processReceipt that found no file at pdfPath
NotFound(filename) ==
  ProcessingResult(FALSE, filename, NULL,
                   "PDF file not found: " \o PathStr(join(getReceiptsDir, filename)),
                   FALSE, NULL, NULL)

\* C32: processReceipt checks that the stored document exists before it
\* extracts: with no receipt for the filename and no file at its path in the
\* store, the call gets no further than the check (it never converts the file
\* nor sends an LLM request), changes no row, and returns success=false with
\* the message "PDF file not found: <path>".
C32_MissingFileIsNotFound ==
  [][\A p \in Procs : \A i \in Docs(p) :
       /\ (docpc'[p][i] \in {"convert", "extract"}) => FileExists(fs', PdfPath(p, i))
       /\ (docpc[p][i] = "load" /\ docpc'[p][i] # "load"
           /\ fs[PdfPath(p, i)] = Absent)
          => /\ docpc'[p][i] = "done"
             /\ results'[p] = Append(results[p], NotFound(filenames[p][i]))
             /\ llmRequests' = llmRequests
             /\ response'[p][i] = NoResponse
             /\ db' = db]_vars

C32_Witness ==
  \E p \in Procs : \E i \in 1..Len(results[p]) :
    /\ fs[join(getReceiptsDir, results[p][i].filename)] = Absent
    /\ ~ RowExists(db, results[p][i].filename)
    /\ results[p][i] = NotFound(results[p][i].filename)
    /\ results[p][i].message = "PDF file not found: /home/receipts/b.pdf"


\* ---------------------------------------------- claims: the db functions, again
\* C33: insertReceiptItems(receiptId, items) is all-or-nothing and keeps the
\* order: when it returns, it has inserted exactly one row per input item,
\* bound to receiptId, and returns these rows in input order with fresh
\* ascending ids; when an insert fails, receipt_items is as it was before the
\* call.
C33_ItemsAllOrNothing ==
  [][\A receiptId \in ReceiptIds : \A items \in ItemLists :
       InsertReceiptItems(receiptId, items)
       => LET r == insertReceiptItems(db, receiptId, items)
              rows == r.value
          IN  IF lastInsert'.threw
              THEN db'.receipt_items = db.receipt_items
              ELSE /\ Len(rows) = Len(items)
                   /\ \A k \in 1..Len(items) :
                        /\ rows[k].receipt_id = receiptId
                        /\ rows[k].item_name = items[k].item_name
                        /\ rows[k].total_price = items[k].total_price
                        /\ rows[k].id \in Nat \ {0}
                        /\ \A old \in db.receipt_items : old.id < rows[k].id
                        /\ \A j \in 1..(k - 1) : rows[j].id < rows[k].id
                   /\ db'.receipt_items =
                        db.receipt_items \cup {rows[k] : k \in 1..Len(items)}
                   /\ Cardinality(db'.receipt_items) =
                        Cardinality(db.receipt_items) + Len(items)]_vars

\* a call whose second insert failed after its first one had succeeded
C33_Witness ==
  /\ lastInsert.op = "insertReceiptItems"
  /\ lastInsert.count = 2
  /\ lastInsert.threw
  /\ lastInsert.error = "NOT NULL constraint failed: receipt_items.item_name"
  /\ \E r \in db.receipts : r.id = lastInsert.id
  /\ ItemsOf(db, lastInsert.id) = {}


\* C34: persistence preserves the extracted numbers, zero included: after a
\* processReceipt that returns success=true the stored total_amount is the
\* extracted total_amount, and each stored item has the extracted quantity and
\* unit_price wherever the extraction supplied one.
C34_NumbersPreserved ==
  [][\A p \in Procs : \A i \in Docs(p) :
       (Answered(p, i) /\ Last(results'[p]).success)
       => LET data == Val(Last(results'[p]).extractedData)
              r == RowOf(db', filenames[p][i])
          IN  /\ r.total_amount = data.total_amount
              /\ \A k \in 1..Len(data.items) :
                   \E it \in ItemsOf(db', r.id) :
                     /\ it.item_name = data.items[k].item_name
                     /\ it.total_price = data.items[k].total_price
                     /\ data.items[k].quantity # NULL
                          => it.quantity = data.items[k].quantity
                     /\ data.items[k].unit_price # NULL
                          => it.unit_price = data.items[k].unit_price]_vars


\* ------------------------------------------------ claims: the store, again
\* C35: moveFileToReceipts returns a filename only if the source has been
\* removed: at the step that returns, nothing is left at the source path (a
\* removal that failed ends the call with "Failed to move file", not with a
\* filename).
C35_ReturnsOnlyIfRemoved ==
  [][\A m \in Movers :
       (mv[m].pc # "returned" /\ mv'[m].pc = "returned")
       => /\ mv'[m].ret = Some(basename(mv[m].sourcePath))
          /\ fs'[mv[m].sourcePath] = Absent]_vars


\* ------------------------------------------------- getUnprocessedReceipts
\* processReceipt(filename) called on database d returns "Receipt already
\* processed" without extracting
ShortCircuits(d, filename) == getReceiptByFilename(d, filename) # NULL

\* C36: getUnprocessedReceipts and processReceipt agree on what is
\* unprocessed: for every filename getUnprocessedReceipts returns, a
\* processReceipt call made on the database of that moment runs the extraction
\* and does not end with "Receipt already processed", receipts of status
\* "error" included.
C36_UnprocessedAgree ==
  [][(fn.pc = "scanning" /\ fn'.pc = "returned")
     => \A k \in 1..Len(fn'.ret) : ~ ShortCircuits(db', fn'.ret[k])]_vars


\* ------------------------------------------------ claims: errors of processReceipt
\* this step ends the processReceipt call of document i of invocation p
Ended(p, i) == docpc[p][i] # "done" /\ docpc'[p][i] = "done"
\* the outcome that step pushes is a failure with message msg that wrote nothing
FailsWith(p, i, msg) ==
  /\ Last(results'[p]) = ProcessingResult(FALSE, filenames[p][i], NULL, msg,
                                          FALSE, NULL, NULL)
  /\ db' = db

\* C37: processReceipt never propagates an exception: no await of it rejects,
\* every call that ends pushes one outcome for its filename, and an error of
\* the idempotency lookup, of the file check, of the extraction or of the
\* persistence transaction ends the call with success=false and the error's
\* message.
C37_NeverPropagates ==
  [][\A p \in Procs : \A i \in Docs(p) :
       /\ status'[p] # "rejected"
       /\ Ended(p, i)
          => /\ Len(results'[p]) = Len(results[p]) + 1
             /\ Last(results'[p]).filename = filenames[p][i]
             /\ Last(results'[p]).success \/ Last(results'[p]).message # ""
             /\ (docpc[p][i] = "notstarted" /\ ~ db.tables)
                  => FailsWith(p, i, "no such table: receipts")
             /\ (docpc[p][i] = "load" /\ ~ FileExists(fs, PdfPath(p, i)))
                  => FailsWith(p, i, NotFound(filenames[p][i]).message)
             /\ (docpc[p][i] = "extract" /\ ~ Complete(response'[p][i]))
                  => /\ HasPrefix(Last(results'[p]).message, VisionPrefix)
                     /\ FailsWith(p, i, Last(results'[p]).message)
             /\ (docpc[p][i] = "extract" /\ response'[p][i].data = DataBadItem
                 /\ response'[p][i].kind = "json")
                  => FailsWith(p, i,
                       "NOT NULL constraint failed: receipt_items.item_name")]_vars

\* a batch on a database without tables: both lookups threw, both documents
\* got their outcome
C37_Witness ==
  /\ ~ db.tables
  /\ status["batch"] = "returned"
  /\ Len(results["batch"]) = 2
  /\ \A k \in 1..2 : results["batch"][k].message = "no such table: receipts"


\* ------------------------------------------------ claims: frame of processReceipt
\* this step is a step of the processReceipt call of document i of invocation p
StepOfCall(p, i) == docpc'[p][i] # docpc[p][i]
\* the receipts of database d that belong to other filenames than f
OtherReceipts(d, f) == {r \in d.receipts : r.filename # f}
\* the items of database d that belong to no receipt of f in database after
OtherItems(d, after, f) ==
  {it \in d.receipt_items :
     \A r \in after.receipts : r.filename = f => it.receipt_id # r.id}

\* C38: processReceipt(f) touches only f's own records: no step of the call
\* adds, changes or deletes a receipts or receipt_items row of another
\* filename, and none creates, changes or deletes a file.
C38_OwnRecordsOnly ==
  [][\A p \in Procs : \A i \in Docs(p) :
       StepOfCall(p, i)
       => /\ fs' = fs
          /\ OtherReceipts(db', filenames[p][i]) = OtherReceipts(db, filenames[p][i])
          /\ OtherItems(db', db', filenames[p][i]) = OtherItems(db, db', filenames[p][i])]_vars

\* a.pdf was persisted with an item while a receipt of b.pdf was there
C38_Witness ==
  \E p \in Procs : \E k \in 1..Len(results[p]) :
    /\ results[p][k].success
    /\ results[p][k].filename = "a.pdf"
    /\ results[p][k].receiptId = Some(2)
    /\ ItemsOf(db, 2) # {}
    /\ \E r \in db.receipts : r.filename = "b.pdf" /\ r.id = 1


\* -------------------------------------------------- claims: the interactive app
\* the invocations whose processReceipt call has not returned yet
InFlight == {p \in Procs : status[p] = "running"}
\* this step is a key event that starts the processing of a document
StartsProcessing == app'.handling \ app.handling # {}

\* C31: in the interactive app at most one processReceipt call is in flight
\* at any time: from the Enter key press that starts a processing until its
\* outcome is handled, no key event starts the processing of another or of
\* the same document.
C31_OneInFlight ==
  [][/\ Cardinality(InFlight') <= 1
     /\ Cardinality(app'.handling) <= 1
     /\ StartsProcessing
        => /\ app.handling = {}
           /\ app.processing = NULL
           /\ InFlight = {}]_vars

\* b.pdf is being processed after the processing of a.pdf was handled
C31_Witness ==
  /\ app.processing = Some("b.pdf")
  /\ InFlight # {}
  /\ isProcessed(app, "a.pdf")

\* C39: the selected index stays in bounds: whatever keys were pressed, files
\* pasted and documents processed, when the unprocessed list is not empty the
\* selected index i satisfies 0 <= i < its length, so that Enter selects a
\* file of the list.
C39_SelectionInBounds ==
  LET unprocessed == getUnprocessedFiles(app)
  IN  Len(unprocessed) > 0
      => /\ app.selectedIndex \in 0..(Len(unprocessed) - 1)
         /\ unprocessed[app.selectedIndex + 1] \in Filenames

\* the second of two files was selected and processed: the list shrank to
\* one file and the index went back to it
C39_Witness ==
  /\ app.files = <<"a.pdf", "b.pdf">>
  /\ isProcessed(app, "b.pdf")
  /\ ~ isProcessed(app, "a.pdf")
  /\ app.processing = NULL
  /\ app.selectedIndex = 0

====
